---- MODULE Spec2Model ----
(***************************************************************************)
(* Support/resistance zone analyzer: the multi-symbol ingestion pipeline   *)
(* (multi_symbol_manager.py), the per-symbol analyzer                      *)
(* (symbol_analyzer.py), the market state and zone records (models.py)     *)
(* and the tolerance-clustering zone detector (detectors.py).              *)
(*                                                                         *)
(* Prices are integers (ticks).  Zone bounds are kept multiplied by        *)
(* PriceScale so that the 0.5 % band and the 0.3 % tolerance are exact.    *)
(***************************************************************************)
EXTENDS Integers, Sequences, FiniteSets, TLC

VARIABLES
    \* ---- MultiSymbolManager (pipeline) ----
    message_queue,      \* asyncio.Queue(maxsize): sequence of messages, head first
    messages_dropped,   \* stats["messages_dropped"]
    messages_processed, \* stats["messages_processed"]
    semaphore,          \* free permits of asyncio.Semaphore
    symbol_analyzers,   \* symbol -> SymbolAnalyzer state
    producer_pc,        \* "listening" | "closed"
    consumer_pc,        \* "get" | "acquire" | "process" | "release" | "stopped"
    consumer_msg,       \* the message the consumer took from the queue
    consumer_raised,    \* whether _process_single_message raised into the loop
    received,           \* history: number of messages pubsub.listen() has yielded
    last_type,          \* history: message["type"] of the last of them
    started,            \* history: ids of messages whose processing began
    finished,           \* history: messages whose processing ended
    updaters,           \* history: symbol -> contexts inside an update of its market states
    \* ---- the other tasks of MultiSymbolManager.start and shutdown() ----
    monitor_pc,         \* "created" | "sleeping" | "logging" | "stopped"
    main_pc,            \* manager.start(): "gather" | "returned"
    shutdown_pc,        \* "none" | "pending" | "gathering" | "done"
    inflight_at_signal, \* history: id of the message being processed when the signal came
    \* ---- SymbolAnalyzer called directly ----
    now,                \* datetime.now(), in seconds
    last_call,          \* history: the last call made on an analyzer
    \* ---- MarketState called directly ----
    ms,                 \* one MarketState
    ms_call,            \* history: the last call made on it
    \* ---- zone registry of one detection pass ----
    zones,              \* the list detect_zones builds
    fed,                \* history: number of pivots fed into the list
    fed_log,            \* history: the (type, price) pairs fed, in order
    \* ---- ZoneDetector over a rolling candle window ----
    det_candles,        \* the candle window handed to detect_zones
    det_seq,            \* arrival number of the newest candle
    det_clock,          \* datetime.now() of the detector's caller
    det_prev,           \* zones returned by the pass before the last
    det_last,           \* zones returned by the last pass
    det_passes,         \* number of passes run
    det_scan,           \* the list the pivot scan of the last pass built
    min_touches,        \* ZoneDetector.min_touches, set by __init__
    \* ---- the signal queue (db_storage.py) and those who use it ----
    trading_signals,    \* the Redis list "trading_signals", head first
    emitted,            \* history: signals the analysis passes emitted
    saved,              \* history: signals handed to save_signal
    popped,             \* history: what the successful pop_signal calls returned
    pop_result,         \* history: the last pop_signal call and the queue before it
    total_signals,      \* performance_stats["total_signals"]
    active_trades,      \* TradeImitation.active_trades
    \* ---- BybitWebSocketClient (ws_client.py) ----
    running,            \* self.running
    reconnect_attempt,  \* the local counter of _connection_handler
    reconnects,         \* stats["reconnects"]
    handler_pc,         \* _connection_handler: "idle" | "connect" | "recv" | "backoff" | "returned"
    ws_monitor_pc,      \* _stats_monitor: "idle" | "sleeping" | "returned"
    start_pc,           \* start(): "idle" | "gather" | "done" | "cancelled"
    exhausted,          \* history: the attempts ran out while running
    \* ---- one zone under confirmation and signal generation ----
    cf_zone,            \* the Zone
    cf_state,           \* the market state the zone is confirmed against
    cf_ret,             \* history: what the last call returned
    cf_now,             \* datetime.now(), in half-lives of decay_factor (12 h)
    \* ---- the live pipeline: Redis, BybitDataStream, analysis_loop, TradeImitation ----
    store,              \* the Redis lists of candle histories, by key, head first
    candle_updates,     \* notifications published on "candle_updates", not yet received
    stream_pc,          \* BybitDataStream.connect: "recv" | "lpush" | "ltrim" | "publish" | "reconnect"
    stream_cur,         \* the (tf, candle) push_candle is storing
    stream_msg,         \* history: the last message ws.recv() returned
    ws_received,        \* history: number of messages ws.recv() returned
    loop_pc,            \* analysis_loop: "listen" | "h15" | "h60" | "h240" | "save"
    loop_note,          \* the notification analysis_loop is handling
    loop_read,          \* what get_signal has read so far, and the signal it returned
    notes_received,     \* history: number of notifications analysis_loop received
    live_saves,         \* history: the notification each saved signal came from
    trade_stats,        \* TradeImitation.stats
    trade_pc,           \* monitor_market: "read" | "check"
    trade_history       \* the history monitor_market read

pipeVars == <<message_queue, messages_dropped, messages_processed, semaphore,
              producer_pc, consumer_pc, consumer_msg, consumer_raised, received,
              last_type,
              started, finished, updaters>>
anVars   == <<symbol_analyzers, now, last_call>>
msVars   == <<ms, ms_call>>
regVars  == <<zones, fed, fed_log>>
detVars  == <<det_candles, det_seq, det_clock, det_prev, det_last, det_passes,
              det_scan, min_touches>>
lifeVars == <<monitor_pc, main_pc, shutdown_pc, inflight_at_signal>>
sigVars  == <<trading_signals, emitted, saved, popped, pop_result, total_signals,
              active_trades>>
wsVars   == <<running, reconnect_attempt, reconnects, handler_pc, ws_monitor_pc,
              start_pc, exhausted>>
cfVars   == <<cf_zone, cf_state, cf_ret, cf_now>>
liveVars == <<store, candle_updates, stream_pc, stream_cur, stream_msg, ws_received,
              loop_pc, loop_note, loop_read, notes_received, live_saves,
              trade_stats, trade_pc, trade_history>>
extVars  == <<lifeVars, sigVars, wsVars, cfVars, liveVars>>
vars     == <<pipeVars, anVars, msVars, regVars, detVars, extVars>>

----------------------------------------------------------------------------
(* Bounds of the model *)

QueueMaxsize == 2      \* stands for asyncio.Queue(maxsize=100000)
MaxMessages  == 3      \* messages the feed delivers in one run
MaxTime      == 6      \* the clock stops here
MaxCalls     == 3      \* direct calls on analyzers in one run
MaxCandles   == 2      \* stands for MarketState(max_candles=...) (100..500)
MaxTrades    == 2      \* stands for deque(maxlen=1000)
MaxAppends   == 7      \* appends to one MarketState in one run
MaxFeeds     == 4      \* pivots fed into one zone list
MaxWindow    == 10     \* candle window of the detector runs
MaxAdds      == 2      \* candles added after the initial window
MaxPasses    == 2      \* detection passes in one run
MaxScanLen   == 9      \* longest candle window scanned
MaxSignals   == 4      \* signals emitted in one run
MaxPops      == 4      \* pop_signal calls in one run
MaxReconnects == 101   \* connection losses in one run

(* Program constants *)

MAX_CONCURRENT_SYMBOLS == 5
ZONE_MIN_TOUCHES       == 3
PriceScale             == 1000
TolerancePerMille      == 3     \* ZONE_TOLERANCE_PCT = 0.003
WidthPerMille          == 5     \* ZONE_WIDTH_ATR_MULTIPLIER * 0.01 = 0.005
DefaultInterval        == 30
MinWindow              == 7
MinValidationCandles   == 20
MAX_RECONNECT_ATTEMPTS == 100

Symbols    == {"BTCUSDT", "ETHUSDT"}          \* config.symbols
Timeframes == {"1", "5"}                      \* config.timeframes

\* Config.ANALYSIS_INTERVAL_SECONDS
ANALYSIS_INTERVAL_SECONDS ==
    [tf \in {"1", "5", "15", "60", "240"} |->
        CASE tf = "1" -> 5 [] tf = "5" -> 30 [] tf = "15" -> 60
          [] tf = "60" -> 300 [] OTHER -> 900]

\* config.ANALYSIS_INTERVAL_SECONDS.get(timeframe, 30)
AnalysisInterval(tf) ==
    IF tf \in DOMAIN ANALYSIS_INTERVAL_SECONDS
    THEN ANALYSIS_INTERVAL_SECONDS[tf] ELSE DefaultInterval

----------------------------------------------------------------------------
(* models.py *)

Min(S) == CHOOSE x \in S : \A y \in S : x <= y
Max(S) == CHOOSE x \in S : \A y \in S : x >= y
Abs(x) == IF x < 0 THEN -x ELSE x

RECURSIVE SumSeq(_)
SumSeq(s) == IF s = <<>> THEN 0 ELSE Head(s) + SumSeq(Tail(s))

RECURSIVE SumSquares(_)
SumSquares(s) == IF s = <<>> THEN 0 ELSE Head(s) * Head(s) + SumSquares(Tail(s))

IsPrefix(s, t) == Len(s) <= Len(t) /\ \A i \in 1..Len(s) : s[i] = t[i]

\* A float is kept as the exact fraction num/den in lowest terms, den > 0
RECURSIVE Gcd(_, _)
Gcd(a, b) == IF b = 0 THEN a ELSE Gcd(b, a % b)

Rat(n, d) ==
    LET g == Gcd(Abs(n), Abs(d))
        k == IF d < 0 THEN -1 ELSE 1
    IN  [num |-> k * (n \div g), den |-> k * (d \div g)]

Zero == Rat(0, 1)
One  == Rat(1, 1)

RAdd(x, y) == Rat(x.num * y.den + y.num * x.den, x.den * y.den)
RMul(x, y) == Rat(x.num * y.num, x.den * y.den)
RDiv(x, y) == Rat(x.num * y.den, x.den * y.num)
RLe(x, y)  == x.num * y.den <= y.num * x.den
RLt(x, y)  == x.num * y.den < y.num * x.den
RMin(x, y) == IF RLe(x, y) THEN x ELSE y
RMax(x, y) == IF RLe(x, y) THEN y ELSE x

\* Optional[float] = None
NoneStrength == [num |-> 0, den |-> 0]

\* `if x:` on an Optional[float]: None and 0.0 are both false
Truthy(x) == x # NoneStrength /\ x.num # 0

\* collections.deque(maxlen=n).append(x): a full deque drops its oldest element
DequeAppendKeepOldest(d, x, maxlen) ==
    IF Len(d) < maxlen THEN Append(d, x) ELSE d

DequeAppend(d, x, maxlen) ==
    IF maxlen = 0 THEN d
    ELSE IF Len(d) < maxlen THEN Append(d, x)
    ELSE Append(Tail(d), x)

\* The attributes and methods class MarketState defines
MarketStateAttrs ==
    {"candles", "orderbook", "recent_trades", "active_zones", "add_candle"}

\* self.orderbook: Dict = {}
EmptyBook == [set |-> FALSE, bids |-> <<>>, asks |-> <<>>]

\* MarketState.__init__
NewMarketState(max_candles) ==
    [candles       |-> <<>>,
     orderbook     |-> EmptyBook,
     recent_trades |-> <<>>,
     active_zones  |-> <<>>,
     max_candles   |-> max_candles]

\* candle['timestamp'] = datetime.now()
Stamp(candle, t) ==
    [f \in DOMAIN candle \cup {"timestamp"} |->
        IF f = "timestamp" THEN t ELSE candle[f]]

\* MarketState.add_candle: the method it calls first, self._validate_candle,
\* is defined nowhere, so the attribute lookup raises AttributeError before
\* the candle is looked at.  Result: the market state and whether the call
\* raised.
add_candle(m, candle, timeframe, t) ==
    IF "_validate_candle" \notin MarketStateAttrs
    THEN [ms |-> m, raised |-> TRUE]
    ELSE [ms |-> [m EXCEPT !.candles =
                        DequeAppend(@, Stamp(candle, t), m.max_candles)],
          raised |-> FALSE]

\* Zone(...) as _add_or_update_zone builds it; StatisticalMetrics() takes
\* created and last_touch from datetime.now(), p_value defaults to 1.0.
\* zone_low and zone_high are multiplied by PriceScale.
NewZoneUncounted(zone_type, price, timestamp, t) ==
    [zone_type    |-> zone_type,
     center       |-> price,
     zone_low     |-> price * (PriceScale - WidthPerMille),
     zone_high    |-> price * (PriceScale + WidthPerMille),
     touches      |-> 0,
     touch_prices |-> <<price>>,
     touch_times  |-> <<timestamp>>,
     created      |-> t,
     last_touch   |-> t,
     p_value      |-> "1.0",
     confidence   |-> Zero,
     confirmed_tf |-> <<>>,
     orderbook_strength    |-> NoneStrength,
     volume_strength       |-> NoneStrength,
     successful_rejections |-> 0,
     failed_breakouts      |-> 0]

NewZone(zone_type, price, timestamp, t) ==
    [zone_type    |-> zone_type,
     center       |-> price,
     zone_low     |-> price * (PriceScale - WidthPerMille),
     zone_high    |-> price * (PriceScale + WidthPerMille),
     touches      |-> 1,
     touch_prices |-> <<price>>,
     touch_times  |-> <<timestamp>>,
     created      |-> t,
     last_touch   |-> t,
     p_value      |-> "1.0",
     confidence   |-> Zero,
     confirmed_tf |-> <<>>,
     orderbook_strength    |-> NoneStrength,
     volume_strength       |-> NoneStrength,
     successful_rejections |-> 0,
     failed_breakouts      |-> 0]

\* Zone.update_touch (touches_std and z_score, square roots, are not kept)
update_touch_no_count(zone, price, time) ==
    [zone EXCEPT !.touch_prices = Append(@, price),
                 !.touch_times  = Append(@, time),
                 !.last_touch   = time]

update_touch(zone, price, time) ==
    [zone EXCEPT !.touch_prices = Append(@, price),
                 !.touch_times  = Append(@, time),
                 !.touches      = @ + 1,
                 !.last_touch   = time]

\* StatisticalMetrics.recency_factor at time now: max(0, 1 - hours / 24),
\* the clock counting periods of 12 hours
recency_factor_unfloored(zone, t) == Rat(2 - (t - zone.last_touch), 2)

recency_factor(zone, t) == RMax(Zero, Rat(2 - (t - zone.last_touch), 2))

\* StatisticalMetrics.decay_factor at time now, half_life_hours = 12:
\* exp(-ln 2 * age / 12) = 1 / 2^(age in periods of 12 hours)
decay_factor(zone, t) == Rat(1, 2 ^ (t - zone.created))

\* sum(self.confirmed_tf.values())
SumTrue(d) == Cardinality({k \in DOMAIN d : d[k]})

\* min(self.touches * 8, 20)
TouchScoreWeightTwo(touches) == Min({touches * 2, 20})

TouchScore(touches) == Min({touches * 8, 20})

\* the sum Zone.quality_score builds, before the final min
RawScore(zone, t) ==
    LET tier == IF RLt(Rat(95, 100), zone.confidence) THEN 20
                ELSE IF RLt(Rat(9, 10), zone.confidence) THEN 10 ELSE 0
        tf   == RMul(Rat(SumTrue(zone.confirmed_tf), 3), Rat(15, 1))
        ob   == IF Truthy(zone.orderbook_strength)
                THEN RMin(RMul(zone.orderbook_strength, Rat(10, 1)), Rat(10, 1))
                ELSE Zero
        vol  == IF Truthy(zone.volume_strength)
                THEN RMin(RMul(zone.volume_strength, Rat(10, 1)), Rat(10, 1))
                ELSE Zero
        rec  == RMul(recency_factor(zone, t), Rat(5, 1))
        dec  == RMul(decay_factor(zone, t), Rat(5, 1))
        win  == IF zone.touches > 0
                THEN RMul(Rat(zone.successful_rejections, zone.touches), Rat(10, 1))
                ELSE Zero
    IN  RAdd(Rat(TouchScore(zone.touches) + tier, 1),
             RAdd(tf, RAdd(ob, RAdd(vol, RAdd(rec, RAdd(dec, win))))))

\* Zone.quality_score read at time now
quality_score_unclamped(zone, t) == RawScore(zone, t)

quality_score(zone, t) == RMin(Rat(100, 1), RawScore(zone, t))

----------------------------------------------------------------------------
(* detectors.py *)

\* abs(zone.center - price) / price <= tolerance, for price > 0
WithinToleranceOfCenter(center, price) ==
    PriceScale * Abs(center - price) <= TolerancePerMille * center

WithinTolerance(center, price) ==
    PriceScale * Abs(center - price) <= TolerancePerMille * price

\* ZoneDetector._add_or_update_zone: the first zone of the list that has the
\* type and is within tolerance takes the touch; otherwise a zone is appended
_add_or_update_zone(zs, zone_type, price, timestamp, t) ==
    LET hit == {i \in 1..Len(zs) :
                    /\ zs[i].zone_type = zone_type
                    /\ WithinTolerance(zs[i].center, price)}
    IN  IF hit # {}
        THEN [zs EXCEPT ![Min(hit)] = update_touch(@, price, timestamp)]
        ELSE Append(zs, NewZone(zone_type, price, timestamp, t))

\* the pivot scan of detect_zones from index i on (1-based; range(3, len-3))
RECURSIVE PivotScan(_, _, _, _)
PivotScan(candles, i, zs, t) ==
    IF i > Len(candles) - 3 THEN zs
    ELSE LET window == {candles[j] : j \in (i - 3)..(i + 3)}
             c      == candles[i]
             z1 == IF c.low = Min({w.low : w \in window})
                   THEN _add_or_update_zone(zs, "support", c.low, c.timestamp, t)
                   ELSE zs
             z2 == IF c.high = Max({w.high : w \in window})
                   THEN _add_or_update_zone(z1, "resistance", c.high, c.timestamp, t)
                   ELSE z1
         IN  PivotScan(candles, i + 1, z2, t)

\* 1000 * (two-sided 10 % critical value of Student's t)^2, by degrees of freedom
CritSq1000(df) ==
    CASE df = 1 -> 39863 [] df = 2 -> 8526 [] df = 3 -> 5538 [] df = 4 -> 4545
      [] df = 5 -> 4060  [] df = 6 -> 3776 [] df = 7 -> 3590 [] df = 8 -> 3458
      [] df = 9 -> 3360  [] OTHER -> 3285

\* scipy.stats.ttest_1samp(touch_prices, mean(closes)).pvalue, as the side of
\* 0.1 it falls on.  t^2 = D^2 (n-1) / (m^2 V) with D = m*sum(x) - n*sum(closes)
\* and V = n*sum(x^2) - sum(x)^2; zero variance gives t = +-inf (p = 0) or nan.
TTestPValue(touch_prices, closes) ==
    LET n == Len(touch_prices)
        m == Len(closes)
        D == m * SumSeq(touch_prices) - n * SumSeq(closes)
        V == n * SumSquares(touch_prices) - SumSeq(touch_prices) * SumSeq(touch_prices)
    IN  IF V = 0 THEN (IF D = 0 THEN "nan" ELSE "<0.1")
        ELSE IF D * D * (n - 1) * 1000 > CritSq1000(n - 1) * m * m * V
             THEN "<0.1" ELSE ">=0.1"

LastN(s, k) == IF Len(s) <= k THEN s ELSE SubSeq(s, Len(s) - k + 1, Len(s))

\* the loop of _statistical_validation before its filter: a zone with three
\* touch prices or more is given to the t-test and takes its p-value, any
\* other zone is left as it is (p_value is kept as the side of 0.1 it falls
\* on; stats.confidence = 1 - p_value is not derived from it here)
SignificanceTestedAll(zs, candles) ==
    LET recent == LastN(candles, 100)
        closes == [i \in 1..Len(recent) |-> recent[i].close]
    IN  [i \in 1..Len(zs) |->
            [zs[i] EXCEPT !.p_value = TTestPValue(zs[i].touch_prices, closes)]]

SignificanceTested(zs, candles) ==
    LET recent == LastN(candles, 100)
        closes == [i \in 1..Len(recent) |-> recent[i].close]
    IN  [i \in 1..Len(zs) |->
            IF Len(zs[i].touch_prices) >= 3
            THEN [zs[i] EXCEPT !.p_value =
                      TTestPValue(zs[i].touch_prices, closes)]
            ELSE zs[i]]

\* ZoneDetector._statistical_validation
_statistical_validation(zs, candles) ==
    IF zs = <<>> \/ Len(candles) < MinValidationCandles THEN zs
    ELSE LET keep(z) == z.p_value = "<0.1"
         IN  SelectSeq(SignificanceTested(zs, candles), keep)

\* ZoneDetector.detect_zones on the candle list it reads (market_state.candles_1m)
\* with self.min_touches = needed; every pass starts from the empty list
detect_zones_unfiltered(candles, needed, t) ==
    IF Len(candles) < MinWindow THEN <<>>
    ELSE _statistical_validation(PivotScan(candles, 4, <<>>, t), candles)

detect_zones(candles, needed, t) ==
    IF Len(candles) < MinWindow THEN <<>>
    ELSE LET scanned == PivotScan(candles, 4, <<>>, t)
             enough(z) == z.touches >= needed
         IN  _statistical_validation(SelectSeq(scanned, enough), candles)

----------------------------------------------------------------------------
(* confirmations.py *)

FirstN(s, k) == IF Len(s) <= k THEN s ELSE SubSeq(s, 1, k)

\* zone.zone_low <= price <= zone.zone_high (the bounds carry PriceScale)
InBand(zone, price) ==
    /\ zone.zone_low <= price * PriceScale
    /\ price * PriceScale <= zone.zone_high

\* the candle test both confirm_with_volume and confirm_multiple_timeframes
\* apply: the low or the high lies inside the band
CandleTouches(zone, candle) ==
    InBand(zone, candle.low) \/ InBand(zone, candle.high)

\* ConfirmationSystem.confirm_with_orderbook; a level is <<price, quantity>>.
\* Result: the zone and the value returned.
confirm_with_orderbook(zone, orderbook) ==
    IF ~orderbook.set THEN [zone |-> zone, strength |-> Zero]
    ELSE LET bids   == FirstN(orderbook.bids, 10)
             asks   == FirstN(orderbook.asks, 10)
             levels == bids \o asks
             total_volume ==
                 SumSeq([i \in 1..Len(levels) |->
                            IF InBand(zone, levels[i][1]) THEN levels[i][2] ELSE 0])
             top == FirstN(bids, 5) \o FirstN(asks, 5)
             avg_volume ==
                 IF Len(levels) >= 10
                 THEN Rat(SumSeq([i \in 1..Len(top) |-> top[i][2]]), 10)
                 ELSE One
             strength ==
                 RDiv(RMin(RDiv(Rat(total_volume, 1), RMax(avg_volume, One)),
                           Rat(3, 1)),
                      Rat(3, 1))
         IN  [zone |-> IF RLt(Rat(3, 10), strength)
                       THEN [zone EXCEPT !.orderbook_strength = strength]
                       ELSE zone,
              strength |-> strength]

\* ConfirmationSystem.confirm_with_volume
confirm_with_volume(zone, recent_candles) ==
    IF Len(recent_candles) < 10 THEN [zone |-> zone, strength |-> Zero]
    ELSE LET scanned == LastN(recent_candles, 50)
             touching(c) == CandleTouches(zone, c)
             touched == SelectSeq(scanned, touching)
             touch_volumes == [i \in 1..Len(touched) |-> touched[i].volume]
             last == LastN(recent_candles, 20)
             avg_volume == Rat(SumSeq([i \in 1..Len(last) |-> last[i].volume]),
                               Len(last))
             volume_ratio == RDiv(Rat(SumSeq(touch_volumes), Len(touch_volumes)),
                                  RMax(avg_volume, One))
             strength == RDiv(RMin(volume_ratio, Rat(2, 1)), Rat(2, 1))
         IN  IF touch_volumes = <<>> THEN [zone |-> zone, strength |-> Zero]
             ELSE [zone |-> IF RLt(Rat(3, 10), strength)
                            THEN [zone EXCEPT !.volume_strength = strength]
                            ELSE zone,
                   strength |-> strength]

\* the count confirm_multiple_timeframes makes over one timeframe's candles
TfTouches(zone, tf_candles) ==
    LET touching(c) == CandleTouches(zone, c)
    IN  Len(SelectSeq(LastN(tf_candles, 20), touching))

\* ConfirmationSystem.confirm_multiple_timeframes, on a market state that has
\* candles_5m and candles_1h
confirm_multiple_timeframes(zone, market_state) ==
    LET tf_candles(tf) == IF tf = "5m" THEN market_state.candles_5m
                          ELSE market_state.candles_1h
        confirmations ==
            [tf \in {"5m", "1h"} |->
                IF Len(tf_candles(tf)) < 10 THEN FALSE
                ELSE TfTouches(zone, tf_candles(tf)) >= 2]
    IN  [zone |-> [zone EXCEPT !.confirmed_tf = confirmations],
         confirmations |-> confirmations]

\* the confirmations TradingAnalyzer._run_analysis runs on one zone: the
\* values the calls return are dropped
_run_analysis_confirm(zone, market_state) ==
    LET z1 == IF market_state.orderbook.set
              THEN confirm_with_orderbook(zone, market_state.orderbook).zone
              ELSE zone
        z2 == IF market_state.candles_1m # <<>>
              THEN confirm_with_volume(z1, LastN(market_state.candles_1m, 100)).zone
              ELSE z1
    IN  confirm_multiple_timeframes(z2, market_state).zone

\* the confirmations SymbolAnalyzer._analyze_timeframe runs on one zone
\* (lines 101-110): the value each call returns is assigned to the field
_analyze_timeframe_confirm(zone, orderbook, candles) ==
    LET z1 == IF orderbook.set
              THEN [confirm_with_orderbook(zone, orderbook).zone
                        EXCEPT !.orderbook_strength =
                            confirm_with_orderbook(zone, orderbook).strength]
              ELSE zone
    IN  IF Len(candles) > 10
        THEN [confirm_with_volume(z1, LastN(candles, 100)).zone
                  EXCEPT !.volume_strength =
                      confirm_with_volume(z1, LastN(candles, 100)).strength]
        ELSE z1

----------------------------------------------------------------------------
(* signals.py *)

MIN_CONFIDENCE       == Rat(7, 10)
ACCOUNT_RISK_PERCENT == Rat(2, 100)

\* any(zone.confirmed_tf.values())
AnyConfirmed(zone) == \E k \in DOMAIN zone.confirmed_tf : zone.confirmed_tf[k]

\* the defaults of the dataclass TradingSignal: `timestamp: datetime =
\* datetime.now()` is evaluated once, when the class statement runs at the
\* import of signals.py, which is before the clock of any run starts
TradingSignalDefaults == [timestamp |-> 0]

\* TradingSignal(zone, signal_type, confidence); no caller passes a timestamp
TradingSignal(zone, signal_type, confidence) ==
    [zone |-> zone, signal_type |-> signal_type, confidence |-> confidence,
     timestamp |-> TradingSignalDefaults.timestamp]

\* TradingSignal.calculate_position_size at time now
calculate_position_size_flat(signal, account_risk, t) ==
    LET confidence_multiplier == RMul(signal.confidence, Rat(2, 1))
        quality_multiplier    == RDiv(quality_score(signal.zone, t), Rat(100, 1))
        final_size ==
            RMul(RMul(account_risk, confidence_multiplier), quality_multiplier)
    IN  RMin(final_size, RMul(account_risk, Rat(3, 1)))

calculate_position_size(signal, account_risk, t) ==
    LET confidence_multiplier == RMul(signal.confidence, Rat(2, 1))
        quality_multiplier    == RDiv(quality_score(signal.zone, t), Rat(100, 1))
        tf_multiplier == IF AnyConfirmed(signal.zone) THEN Rat(3, 2) ELSE One
        final_size ==
            RMul(RMul(RMul(account_risk, confidence_multiplier), quality_multiplier),
                 tf_multiplier)
    IN  RMin(final_size, RMul(account_risk, Rat(3, 1)))

\* SignalGenerator._calculate_bounce_confidence at time now
_calculate_bounce_confidence_unclamped(zone, t) ==
    LET c1 == IF Truthy(zone.volume_strength)
              THEN RAdd(Rat(1, 2), RMul(zone.volume_strength, Rat(2, 10)))
              ELSE Rat(1, 2)
        c2 == IF Truthy(zone.orderbook_strength)
              THEN RAdd(c1, RMul(zone.orderbook_strength, Rat(15, 100)))
              ELSE c1
        c3 == IF AnyConfirmed(zone) THEN RAdd(c2, Rat(15, 100)) ELSE c2
    IN  RAdd(c3, RMul(RDiv(quality_score(zone, t), Rat(100, 1)), Rat(1, 10)))

_calculate_bounce_confidence(zone, t) ==
    LET c1 == IF Truthy(zone.volume_strength)
              THEN RAdd(Rat(1, 2), RMul(zone.volume_strength, Rat(2, 10)))
              ELSE Rat(1, 2)
        c2 == IF Truthy(zone.orderbook_strength)
              THEN RAdd(c1, RMul(zone.orderbook_strength, Rat(15, 100)))
              ELSE c1
        c3 == IF AnyConfirmed(zone) THEN RAdd(c2, Rat(15, 100)) ELSE c2
        c4 == RAdd(c3, RMul(RDiv(quality_score(zone, t), Rat(100, 1)), Rat(1, 10)))
    IN  RMin(c4, One)

\* SignalGenerator._check_bounce, on a market state that has candles_1m.
\* Result: <<>> for None, else the one signal.
_check_bounce(zone, market_state, min_confidence, t) ==
    LET recent_candles == LastN(market_state.candles_1m, 3)
        last_candle == recent_candles[Len(recent_candles)]
        prev_candle == recent_candles[Len(recent_candles) - 1]
        touched == IF zone.zone_type = "support"
                   THEN InBand(zone, prev_candle.low)
                   ELSE InBand(zone, prev_candle.high)
        bounced == IF zone.zone_type = "support"
                   THEN last_candle.close > prev_candle.close
                   ELSE last_candle.close < prev_candle.close
        confidence == _calculate_bounce_confidence(zone, t)
    IN  IF Len(recent_candles) < 2 THEN <<>>
        ELSE IF zone.zone_type \notin {"support", "resistance"} THEN <<>>
        ELSE IF touched /\ bounced /\ RLe(min_confidence, confidence)
             THEN <<TradingSignal(zone, "rejection", confidence)>>
             ELSE <<>>

\* `if zone.quality_score < 40: continue`, negated
ConsideredAlways(zone, t) == TRUE

Considered(zone, t) == ~RLt(quality_score(zone, t), Rat(40, 1))

\* the loop of generate_signals over the zones from index i on
RECURSIVE SignalsFrom(_, _, _, _, _)
SignalsFrom(zs, i, market_state, min_confidence, t) ==
    IF i > Len(zs) THEN <<>>
    ELSE (IF ~Considered(zs[i], t) THEN <<>>
          ELSE _check_bounce(zs[i], market_state, min_confidence, t))
         \o SignalsFrom(zs, i + 1, market_state, min_confidence, t)

\* SignalGenerator.generate_signals at time now
generate_signals(market_state, min_confidence, t) ==
    IF market_state.active_zones = <<>> THEN <<>>
    ELSE SignalsFrom(market_state.active_zones, 1, market_state, min_confidence, t)

----------------------------------------------------------------------------
(* symbol_analyzer.py *)

\* config.MAX_CANDLES_PER_TF.get(tf, 200), scaled to the model's window
MaxCandlesPerTf(tf) == IF tf = "1" THEN MaxCandles + 1 ELSE MaxCandles

\* SymbolAnalyzer.__init__ at time t
NewAnalyzer(t) ==
    [market_states      |-> [tf \in Timeframes |-> NewMarketState(MaxCandlesPerTf(tf))],
     last_analysis_time |-> [tf \in Timeframes |-> t],
     active_zones       |-> [tf \in Timeframes |-> <<>>],
     errors             |-> 0,
     total_signals      |-> 0]

\* SymbolAnalyzer._analyze_timeframe.  Whatever is raised inside is caught by
\* its own except clause and only logged.  detect_zones reads
\* market_state.candles_1m, which MarketState does not have; past that, the
\* loop over zones reads config.CONFIRMATION_TIMEFRAMES, which Config does not
\* have, and generate_signals is called with one argument too many.
\* Result: the analyzer and whether an exception was caught.
_analyze_timeframe(an, tf, t) ==
    IF "candles_1m" \notin MarketStateAttrs
    THEN [an |-> an, failed |-> TRUE]
    ELSE LET found == detect_zones(an.market_states[tf].candles, ZONE_MIN_TOUCHES, t)
         IN  IF found # <<>>
             THEN [an |-> an, failed |-> TRUE]
             ELSE [an |-> [an EXCEPT !.active_zones[tf] = <<>>],
                   failed |-> tf \in {"1", "5"}]

CountErrorTouchesAll(an) ==
    [an EXCEPT !.errors = @ + 1,
               !.last_analysis_time = [tf \in DOMAIN @ |-> @[tf] + 1]]

CountErrorNot(an) == an

\* the except clause of process_candle
CountError(an) == [an EXCEPT !.errors = @ + 1]

\* SymbolAnalyzer.process_candle.  Nothing escapes it: the body is inside
\* try/except Exception.  outcome is history for the properties.
process_candle(an, tf, candle, t) ==
    IF tf \notin DOMAIN an.market_states
    THEN [an |-> an, outcome |-> "unsupported"]
    ELSE LET added == add_candle(an.market_states[tf], candle, tf, t)
         IN  IF added.raised
             THEN [an |-> CountError(an), outcome |-> "error"]
             ELSE LET an1 == [an EXCEPT !.market_states[tf] = added.ms]
                  IN  IF t - an1.last_analysis_time[tf] >= AnalysisInterval(tf)
                      THEN LET r == _analyze_timeframe(an1, tf, t)
                           IN  [an |-> [r.an EXCEPT !.last_analysis_time[tf] = t],
                                outcome |-> IF r.failed THEN "analysis_failed"
                                            ELSE "analyzed"]
                      ELSE [an |-> an1, outcome |-> "stored"]

----------------------------------------------------------------------------
(* multi_symbol_manager.py *)

\* a pubsub message without the "channel" key
NoChannel == <<>>

\* if len(parts) >= 3
TopicDispatchableTwo(parts) == Len(parts) >= 2

TopicDispatchable(parts) == Len(parts) >= 3

\* the trade loop of _process_single_message on one MarketState: float() of a
\* missing or non-numeric field raises after the trades before it were appended
RECURSIVE AppendTrades(_, _, _)
AppendTrades(m, trades, t) ==
    IF trades = <<>> THEN [ms |-> m, raised |-> FALSE]
    ELSE IF ~Head(trades).ok THEN [ms |-> m, raised |-> TRUE]
    ELSE AppendTrades(
            [m EXCEPT !.recent_trades =
                DequeAppend(@, [price |-> Head(trades).p, qty |-> Head(trades).v,
                                side |-> Head(trades).S, timestamp |-> t],
                            MaxTrades)],
            Tail(trades), t)

\* the body of the try block of _process_single_message.
\* Result: the analyzers and whether an exception was raised.
ProcessBody(ans, msg, t) ==
    LET same  == [ans |-> ans, raised |-> FALSE]
        raise == [ans |-> ans, raised |-> TRUE]
        parts == msg.channel
        data  == msg.data
    IN  IF parts = NoChannel \/ data.kind = "badjson" THEN raise
        ELSE IF ~TopicDispatchable(parts) THEN same
        ELSE LET msg_type == parts[1]
                 symbol   == parts[Len(parts)]
             IN  IF symbol \notin DOMAIN ans THEN same
                 ELSE IF msg_type = "kline" THEN
                        (IF data.kind = "nodata" THEN same
                         ELSE IF data.kind # "kline" THEN raise
                         ELSE [ans |-> [ans EXCEPT ![symbol] =
                                    process_candle(@, parts[2], data.candle, t).an],
                               raised |-> FALSE])
                 ELSE IF msg_type = "orderbook" THEN
                        (IF data.kind = "nodata" THEN same
                         ELSE IF data.kind # "book" THEN raise
                         ELSE IF "1" \notin DOMAIN ans[symbol].market_states THEN raise
                         ELSE [ans |-> [ans EXCEPT ![symbol].market_states["1"].orderbook =
                                    [set |-> TRUE, bids |-> data.book.b, asks |-> data.book.a]],
                               raised |-> FALSE])
                 ELSE IF msg_type = "publicTrade" THEN
                        (IF data.kind \notin {"trades", "nodata"} THEN raise
                         ELSE IF "1" \notin DOMAIN ans[symbol].market_states
                         THEN (IF data.trades = <<>> THEN same ELSE raise)
                         ELSE LET r == AppendTrades(ans[symbol].market_states["1"],
                                                    data.trades, t)
                              IN  [ans |-> [ans EXCEPT ![symbol].market_states["1"] = r.ms],
                                   raised |-> r.raised])
                 ELSE same

\* MultiSymbolManager._process_single_message: except Exception logs and returns
_process_single_message(ans, msg, t) ==
    [ans |-> ProcessBody(ans, msg, t).ans, raised |-> FALSE]

\* asyncio.Queue.put_nowait: TRUE when the queue takes the message
PutAccepts(q) == Len(q) < QueueMaxsize

\* the queue after put_nowait succeeded
PutAtHead(q, m) == <<m>> \o q

PutNowait(q, m) == Append(q, m)

\* the message asyncio.Queue.get returns, and the queue it leaves
QueueGetPeek(q) == [msg |-> Head(q), rest |-> q]

QueueGetNewest(q) == [msg |-> q[Len(q)], rest |-> SubSeq(q, 1, Len(q) - 1)]

QueueGet(q) == [msg |-> Head(q), rest |-> Tail(q)]

\* async with self.semaphore: entering takes a permit, leaving returns it
SemAcquire(s) == s - 1

SemReleaseLost(s) == s

SemRelease(s) == s + 1

----------------------------------------------------------------------------
(* What the feed delivers.  A payload is the decoded "data" of a message:   *)
(* kind "badjson" does not parse, "nodata" parses to an empty "data",       *)
(* "klinebad" is a kline record with a missing or non-numeric field.        *)

Payload(kind, candle, book, trades) ==
    [kind |-> kind, candle |-> candle, book |-> book, trades |-> trades]

Candle(o, h, l, c, v) ==
    [open |-> o, high |-> h, low |-> l, close |-> c, volume |-> v, finite |-> TRUE]

GoodCandle == Candle(1000, 1010, 990, 1005, 7)
NoBook     == [b |-> <<>>, a |-> <<>>]
BookA      == [b |-> <<<<999, 2>>>>, a |-> <<<<1001, 3>>>>]
GoodTrade  == [p |-> 1000, v |-> 1, S |-> "Buy", ok |-> TRUE]
BadTrade   == [p |-> 0, v |-> 0, S |-> "Buy", ok |-> FALSE]

KlinePayloads == {Payload("kline", GoodCandle, NoBook, <<>>),
                  Payload("klinebad", GoodCandle, NoBook, <<>>)}
BookPayloads  == {Payload("book", GoodCandle, BookA, <<>>),
                  Payload("badjson", GoodCandle, NoBook, <<>>)}
TradePayloads == {Payload("trades", GoodCandle, NoBook, <<GoodTrade, BadTrade>>),
                  Payload("trades", GoodCandle, NoBook, <<GoodTrade>>)}

\* the channels _redis_producer subscribes to, split at "."
KlineTopics == {<<"kline", tf, s>> : tf \in Timeframes, s \in Symbols}
BookTopics  == {<<"orderbook", "50", s>> : s \in Symbols}
TradeTopics == {<<"publicTrade", s>> : s \in Symbols}

FeedMessages ==
    {[type |-> "message", channel |-> c, data |-> d] :
        c \in KlineTopics, d \in KlinePayloads}
    \cup {[type |-> "message", channel |-> c, data |-> d] :
        c \in BookTopics, d \in BookPayloads}
    \cup {[type |-> "message", channel |-> c, data |-> d] :
        c \in TradeTopics, d \in TradePayloads}
    \cup {[type |-> "message", channel |-> NoChannel,
           data |-> Payload("nodata", GoodCandle, NoBook, <<>>)]}
    \cup {[type |-> "subscribe", channel |-> <<"kline", "1", "BTCUSDT">>,
           data |-> Payload("nodata", GoodCandle, NoBook, <<>>)]}

WithId(m, id) == [id |-> id, type |-> m.type, channel |-> m.channel, data |-> m.data]

NoMessage == WithId([type |-> "none", channel |-> NoChannel,
                     data |-> Payload("nodata", GoodCandle, NoBook, <<>>)], 0)

\* malformed or partial: invalid JSON, no channel, a missing or non-numeric
\* OHLCV or trade field
Malformed(m) ==
    \/ m.channel = NoChannel
    \/ m.data.kind \in {"badjson", "klinebad"}
    \/ \E i \in 1..Len(m.data.trades) : ~m.data.trades[i].ok

MarketStates(ans) == [s \in DOMAIN ans |-> ans[s].market_states]

\* the symbol whose analyzer _process_single_message hands the message to
\* ("" when it hands it to none)
MsgSymbol(msg) ==
    IF msg.channel # NoChannel /\ TopicDispatchable(msg.channel)
          /\ msg.channel[Len(msg.channel)] \in Symbols
    THEN msg.channel[Len(msg.channel)] ELSE ""

\* await self._process_single_message(message): the consumer is inside the
\* update of the message's symbol from the call until it has returned
EnterUpdate(u, s) == IF s \in DOMAIN u THEN [u EXCEPT ![s] = @ + 1] ELSE u

LeaveUpdateNotAwaited(u, s) == u

LeaveUpdate(u, s) == IF s \in DOMAIN u THEN [u EXCEPT ![s] = @ - 1] ELSE u

----------------------------------------------------------------------------
(* The pipeline: MultiSymbolManager.start runs the consumer, the producer   *)
(* and the monitor as tasks of one event loop.  The producer iterates the   *)
(* blocking pubsub.listen() without awaiting, so while it listens no other  *)
(* task runs; the consumer runs once the producer has ended.                *)

NoCall   == [op |-> "none", symbol |-> "", tf |-> "", outcome |-> "", n |-> 0,
             candle |-> GoodCandle]
\* None, where a signal dict is expected
NoSignal == [symbol |-> "", side |-> "", price |-> 0, type |-> "None"]
NoPop    == [n |-> 0, value |-> NoSignal, before |-> <<>>]
NoMsCall == [op |-> "none", raised |-> FALSE, n |-> 0, candle |-> GoodCandle,
             ncandles |-> 0, ntrades |-> 0]

IdleAnalyzerCalls == /\ now = 0
                     /\ last_call = NoCall
IdleMarketState   == /\ ms = NewMarketState(MaxCandles)
                     /\ ms_call = NoMsCall
IdleRegistry      == zones = <<>> /\ fed = 0 /\ fed_log = <<>>
IdleDetector      == /\ det_candles = <<>> /\ det_seq = 0 /\ det_clock = 0
                     /\ det_prev = <<>> /\ det_last = <<>> /\ det_passes = 0
                     /\ det_scan = <<>>
                     /\ min_touches = ZONE_MIN_TOUCHES

IdleLifecycle == /\ monitor_pc = "created" /\ main_pc = "gather"
                 /\ shutdown_pc = "none" /\ inflight_at_signal = 0

IdleSignals ==
    /\ trading_signals = <<>>
    /\ emitted = <<>>
    /\ saved = <<>>
    /\ popped = <<>>
    /\ pop_result = NoPop
    /\ total_signals = 0
    /\ active_trades = <<>>

IdleWs ==
    /\ running = FALSE
    /\ reconnect_attempt = 0
    /\ reconnects = 0
    /\ handler_pc = "idle"
    /\ ws_monitor_pc = "idle"
    /\ start_pc = "idle"
    /\ exhausted = FALSE

\* the market state TradingAnalyzer holds and hands to the confirmations and
\* the signal generator
TradingMarketState(orderbook, candles_1m, candles_5m, candles_1h, active_zones) ==
    [orderbook    |-> orderbook,
     candles_1m   |-> candles_1m,
     candles_5m   |-> candles_5m,
     candles_1h   |-> candles_1h,
     active_zones |-> active_zones]

NoReturn == [op |-> "none", before |-> NewZone("support", 1000, 0, 0),
             strength |-> NoneStrength, signals |-> <<>>, confidence |-> Zero,
             size |-> Zero]

\* config.py (the live pipeline)
SYMBOL   == "BTCUSDT"
TF_ENTRY == "15"
TF_LEVEL == "60"
TF_TREND == "240"

\* f"history:{config.SYMBOL}:{tf}", kept as its parts between the colons; tf
\* is the sequence of the parts of the argument
HistoryKey(tf) == <<"history", SYMBOL>> \o tf

\* the keys the program reads or writes: push_candle of the three subscribed
\* timeframes, and get_history(f"{config.SYMBOL}:{config.TF_ENTRY}")
LiveKeys ==
    {HistoryKey(<<tf>>) : tf \in {TF_ENTRY, TF_LEVEL, TF_TREND}}
        \cup {HistoryKey(<<SYMBOL, TF_ENTRY>>)}

\* the candle dict BybitDataStream.connect builds
LiveCandle(t, o, h, l, c, v) == [t |-> t, o |-> o, h |-> h, l |-> l, c |-> c, v |-> v]

NoLiveCandle == LiveCandle(0, 0, 0, 0, 0, 0)
NoWsMessage  == [kind |-> "none", topic |-> <<>>, confirm |-> "absent",
                 start |-> "0", open |-> "0", high |-> "0", low |-> "0",
                 close |-> "0", volume |-> "0"]
NoNote       == [type |-> "none", data |-> "", cause |-> NoLiveCandle, n |-> 0]
NoLiveSignal == [symbol |-> "", side |-> "", price |-> 0, type |-> "None"]
NoRead       == [h15 |-> <<>>, h60 |-> <<>>, h240 |-> <<>>, sig |-> NoLiveSignal]

\* what ps.listen() yields first, after ps.subscribe("candle_updates")
SubscribeAck == [type |-> "subscribe", data |-> "1", cause |-> NoLiveCandle, n |-> 0]

IdleLive ==
    /\ store = [k \in LiveKeys |-> <<>>]
    /\ candle_updates = <<SubscribeAck>>
    /\ stream_pc = "recv"
    /\ stream_cur = [tf |-> "", candle |-> NoLiveCandle]
    /\ stream_msg = NoWsMessage
    /\ ws_received = 0
    /\ loop_pc = "listen"
    /\ loop_note = NoNote
    /\ loop_read = NoRead
    /\ notes_received = 0
    /\ live_saves = <<>>
    /\ trade_stats = [wins |-> 0, losses |-> 0]
    /\ trade_pc = "read"
    /\ trade_history = <<>>

IdleConfirm ==
    /\ cf_zone = NewZone("support", 1000, 0, 0)
    /\ cf_state = TradingMarketState(EmptyBook, <<>>, <<>>, <<>>, <<>>)
    /\ cf_ret = NoReturn
    /\ cf_now = 0

IdleExt == IdleLifecycle /\ IdleSignals /\ IdleWs /\ IdleConfirm /\ IdleLive

IdlePipeline ==
    /\ message_queue = <<>>
    /\ messages_dropped = 0
    /\ messages_processed = 0
    /\ semaphore = MAX_CONCURRENT_SYMBOLS
    /\ producer_pc = "listening"
    /\ consumer_pc = "get"
    /\ consumer_msg = NoMessage
    /\ consumer_raised = FALSE
    /\ received = 0
    /\ last_type = "none"
    /\ started = <<>>
    /\ finished = <<>>
    /\ updaters = [s \in Symbols |-> 0]

Init ==
    /\ IdlePipeline
    /\ symbol_analyzers = [s \in Symbols |-> NewAnalyzer(0)]
    /\ IdleAnalyzerCalls
    /\ IdleMarketState
    /\ IdleRegistry
    /\ IdleDetector
    /\ IdleExt

\* _redis_producer: one message of pubsub.listen()
ProducerReceive(m) ==
    /\ producer_pc = "listening"
    /\ consumer_pc = "get"
    /\ received < MaxMessages
    /\ received' = received + 1
    /\ last_type' = m.type
    /\ IF m.type = "message"
       THEN IF PutAccepts(message_queue)
            THEN /\ message_queue' = PutNowait(message_queue, WithId(m, received + 1))
                 /\ UNCHANGED messages_dropped
            ELSE /\ messages_dropped' = messages_dropped + 1
                 /\ UNCHANGED message_queue
       ELSE UNCHANGED <<message_queue, messages_dropped>>
    /\ UNCHANGED <<messages_processed, semaphore, producer_pc, consumer_pc,
                   consumer_msg, consumer_raised, started, finished, updaters>>
    /\ UNCHANGED <<anVars, msVars, regVars, detVars, extVars>>

\* pubsub.listen() ends or raises: the producer logs, closes and returns
ProducerClose ==
    /\ producer_pc = "listening"
    /\ producer_pc' = "closed"
    /\ UNCHANGED <<message_queue, messages_dropped, messages_processed, semaphore,
                   consumer_pc, consumer_msg, consumer_raised, received, last_type,
                   started, finished, updaters>>
    /\ UNCHANGED <<anVars, msVars, regVars, detVars, extVars>>

\* message = await self.message_queue.get()
ConsumerGet ==
    /\ producer_pc = "closed"
    /\ consumer_pc = "get"
    /\ message_queue # <<>>
    /\ consumer_msg' = QueueGet(message_queue).msg
    /\ message_queue' = QueueGet(message_queue).rest
    /\ consumer_pc' = "acquire"
    /\ UNCHANGED <<messages_dropped, messages_processed, semaphore, producer_pc,
                   consumer_raised, received, last_type, started, finished, updaters>>
    /\ UNCHANGED <<anVars, msVars, regVars, detVars, extVars>>

\* async with self.semaphore: enter and call _process_single_message
ConsumerAcquire ==
    /\ producer_pc = "closed"
    /\ consumer_pc = "acquire"
    /\ semaphore > 0
    /\ semaphore' = SemAcquire(semaphore)
    /\ started' = Append(started, consumer_msg.id)
    /\ updaters' = EnterUpdate(updaters, MsgSymbol(consumer_msg))
    /\ consumer_pc' = "process"
    /\ UNCHANGED <<message_queue, messages_dropped, messages_processed, producer_pc,
                   consumer_msg, consumer_raised, received, last_type, finished>>
    /\ UNCHANGED <<anVars, msVars, regVars, detVars, extVars>>

\* _process_single_message(message) runs and returns
ConsumerProcess ==
    /\ producer_pc = "closed"
    /\ consumer_pc = "process"
    /\ LET r == _process_single_message(symbol_analyzers, consumer_msg, now)
       IN  /\ symbol_analyzers' = r.ans
           /\ consumer_raised' = r.raised
    /\ finished' = Append(finished, consumer_msg)
    /\ updaters' = LeaveUpdate(updaters, MsgSymbol(consumer_msg))
    /\ consumer_pc' = "release"
    /\ UNCHANGED <<message_queue, messages_dropped, messages_processed, semaphore,
                   producer_pc, consumer_msg, received, last_type, started>>
    /\ UNCHANGED <<now, last_call, msVars, regVars, detVars, extVars>>

\* leaving async with; then task_done() and the counter, or, had the call
\* raised, the loop's except Exception
ConsumerRelease ==
    /\ producer_pc = "closed"
    /\ consumer_pc = "release"
    /\ semaphore' = SemRelease(semaphore)
    /\ messages_processed' = IF consumer_raised THEN messages_processed
                             ELSE messages_processed + 1
    /\ consumer_raised' = FALSE
    /\ consumer_pc' = "get"
    /\ UNCHANGED <<message_queue, messages_dropped, producer_pc, consumer_msg,
                   received, last_type, started, finished, updaters>>
    /\ UNCHANGED <<anVars, msVars, regVars, detVars, extVars>>

\* where the consumer is suspended and a CancelledError can be thrown into
\* it: in queue.get() on an empty queue.  The semaphore is never exhausted and
\* nothing that _process_single_message awaits suspends.
CancellationPointAnyAwait(pc, q) == pc \in {"get", "acquire", "process"}

CancellationPoint(pc, q) == pc = "get" /\ q = <<>>

\* consumer_task.cancel(): CancelledError is thrown where the consumer is
\* suspended; the loop breaks
ConsumerCancel ==
    /\ producer_pc = "closed"
    /\ CancellationPoint(consumer_pc, message_queue)
    /\ consumer_pc' = "stopped"
    /\ UNCHANGED <<message_queue, messages_dropped, messages_processed, semaphore,
                   producer_pc, consumer_msg, consumer_raised, received, last_type,
                   started, finished, updaters>>
    /\ UNCHANGED <<anVars, msVars, regVars, detVars, extVars>>

Next ==
    \/ \E m \in FeedMessages : ProducerReceive(m)
    \/ ProducerClose
    \/ ConsumerGet
    \/ ConsumerAcquire
    \/ ConsumerProcess
    \/ ConsumerRelease
    \/ ConsumerCancel

Spec == Init /\ [][Next]_vars

----------------------------------------------------------------------------
(* Properties of the pipeline *)

QueueFull == Len(message_queue) >= QueueMaxsize

\* C1: a message arriving at a full queue is discarded, messages_dropped
\* grows by exactly 1 and the queue is unchanged; arriving at a queue that is
\* not full it is appended at the tail and messages_dropped is unchanged; in
\* both cases the producer goes on listening.
C1_EnqueueOrDrop ==
    [][(received' = received + 1 /\ last_type' = "message") =>
          /\ producer_pc' = "listening"
          /\ IF QueueFull
             THEN /\ message_queue' = message_queue
                  /\ messages_dropped' = messages_dropped + 1
             ELSE /\ \E m \in FeedMessages :
                        /\ m.type = "message"
                        /\ message_queue' =
                              Append(message_queue, WithId(m, received + 1))
                  /\ messages_dropped' = messages_dropped]_vars

\* a message was dropped at a full queue, and one was appended behind another
C1_Witness ==
    /\ messages_dropped > 0
    /\ Len(message_queue) = QueueMaxsize
    /\ last_type = "message"

Increasing(ids) == \A i, j \in 1..Len(ids) : i < j => ids[i] < ids[j]

QueueIds == [i \in 1..Len(message_queue) |-> message_queue[i].id]

\* C2: retained messages are processed in arrival order, one at a time: the
\* ids of started messages increase, every started message but the last has
\* finished, and what waits in the queue arrived after everything started.
C2_ArrivalOrder ==
    /\ Increasing(started)
    /\ Increasing(QueueIds)
    /\ Len(finished) <= Len(started)
    /\ Len(started) <= Len(finished) + 1
    /\ \A i \in 1..Len(finished) : finished[i].id = started[i]
    /\ \A i \in 1..Len(started), j \in 1..Len(message_queue) :
            started[i] < message_queue[j].id

\* two retained messages were processed after a third was dropped
C2_Witness ==
    /\ Len(finished) >= 2
    /\ messages_dropped >= 1

\* C3: processing a malformed message changes no analyzer's market state and
\* returns into the loop, which stops only by cancellation, with nothing left
\* in the queue.
C3_BadInputSkipped ==
    /\ [][(consumer_pc = "process" /\ consumer_pc' # "process"
                /\ Malformed(consumer_msg)) =>
            /\ MarketStates(symbol_analyzers') = MarketStates(symbol_analyzers)
            /\ consumer_pc' = "release"
            /\ ~consumer_raised']_vars
    /\ [][consumer_pc' = "stopped" =>
            (consumer_pc \in {"get", "stopped"} /\ message_queue = <<>>)]_vars

\* a malformed message was processed and an order book after it was applied
C3_Witness ==
    \E i, j \in 1..Len(finished) :
        /\ i < j
        /\ Malformed(finished[i])
        /\ finished[j].data.kind = "book"
        /\ symbol_analyzers[finished[j].channel[3]].market_states["1"].orderbook.set

\* C5: at most MAX_CONCURRENT_SYMBOLS messages are inside
\* _process_single_message; a message is inside only while a permit is held,
\* and the permit is back once the processing has ended.
InFlight == IF consumer_pc = "process" THEN 1 ELSE 0
Holding  == IF consumer_pc \in {"process", "release"} THEN 1 ELSE 0

C5_ConcurrencyLimit ==
    /\ InFlight <= MAX_CONCURRENT_SYMBOLS
    /\ semaphore >= 0
    /\ semaphore = MAX_CONCURRENT_SYMBOLS - Holding

\* a second message is inside, on a permit released by the first
C5_Witness ==
    /\ consumer_pc = "process"
    /\ Len(finished) >= 1
    /\ semaphore = MAX_CONCURRENT_SYMBOLS - 1

\* the tasks of start() are scheduled again and again: whatever the consumer
\* can do next, it eventually does
SpecFair ==
    /\ Spec
    /\ WF_vars(ConsumerGet)
    /\ WF_vars(ConsumerAcquire)
    /\ WF_vars(ConsumerProcess)
    /\ WF_vars(ConsumerRelease)

\* C33: under fair scheduling every message accepted into the queue is
\* eventually taken by the consumer and processed.
C33_AcceptedIsProcessed ==
    \A id \in 1..MaxMessages :
        (\E i \in 1..Len(message_queue) : message_queue[i].id = id)
            ~> (\E i \in 1..Len(finished) : finished[i].id = id)

\* messages the consumer has taken from the queue and not yet counted
Taken == IF consumer_pc \in {"acquire", "process", "release"} THEN 1 ELSE 0

Accounted == messages_dropped + Len(message_queue) + messages_processed + Taken

MessageArrives == received' = received + 1 /\ last_type' = "message"

\* C34: the messages (pubsub items of type "message") the producer has
\* received are the dropped ones, the queued ones, the processed ones and
\* the one the consumer holds: the sum is 0 at the start, grows by one with
\* every message received and changes at no other step; the counters never
\* fall, no step counts a message as dropped and as processed, and the
\* consumer holds at most one message.
C34_AccountingConserved ==
    /\ [](received = 0 => Accounted = 0)
    /\ [](Accounted <= received /\ Taken <= 1)
    /\ [][/\ Accounted' = Accounted + (IF MessageArrives THEN 1 ELSE 0)
          /\ messages_dropped' >= messages_dropped
          /\ messages_processed' >= messages_processed
          /\ messages_dropped' + messages_processed'
                <= messages_dropped + messages_processed + 1
          /\ messages_dropped' > messages_dropped =>
                (MessageArrives /\ message_queue' = message_queue)
          /\ messages_processed' > messages_processed =>
                (Taken = 1 /\ Taken' = 0)]_vars

\* of three messages one was dropped, one is processed and counted, and the
\* consumer holds the third
C34_Witness ==
    /\ received = 3
    /\ messages_dropped = 1
    /\ messages_processed = 1
    /\ consumer_pc = "process"
    /\ message_queue = <<>>

\* the consumer leaves _process_single_message, having been handed a
\* well-formed event of a subscribed class
WellFormedEventDone ==
    /\ consumer_pc = "process" /\ consumer_pc' # "process"
    /\ ~Malformed(consumer_msg)
    /\ consumer_msg.channel[1] \in {"kline", "orderbook", "publicTrade"}

\* C27: a well-formed kline, orderbook or publicTrade event for a tracked
\* symbol updates that symbol's market state: the kline's candle is appended
\* to the window of its timeframe, the order book is replaced by the
\* snapshot, every trade is appended to the trade window; an event for an
\* untracked symbol changes no analyzer
C27_EventsUpdateState ==
    [][WellFormedEventDone =>
        LET msg    == consumer_msg
            class  == msg.channel[1]
            symbol == msg.channel[Len(msg.channel)]
            data   == msg.data
            before == symbol_analyzers
            after  == symbol_analyzers'
        IN  IF symbol \notin Symbols THEN after = before
            ELSE /\ (class = "kline" /\ data.kind = "kline") =>
                      LET tf == msg.channel[2]
                          w  == after[symbol].market_states[tf].candles
                      IN  /\ w # <<>>
                          /\ \A f \in DOMAIN data.candle :
                                w[Len(w)][f] = data.candle[f]
                 /\ (class = "orderbook" /\ data.kind = "book") =>
                      after[symbol].market_states["1"].orderbook =
                          [set |-> TRUE, bids |-> data.book.b, asks |-> data.book.a]
                 /\ (class = "publicTrade" /\ data.kind = "trades") =>
                      LET w == after[symbol].market_states["1"].recent_trades
                          n == Len(data.trades)
                      IN  /\ Len(w) >= Min({n, MaxTrades})
                          /\ w[Len(w)].price = data.trades[n].p]_vars

----------------------------------------------------------------------------
(* SymbolAnalyzer: process_candle and _analyze_timeframe called on the      *)
(* analyzers of the manager, while the clock runs.                          *)

\* high < low
BadOhlcCandle   == Candle(1000, 990, 1010, 1005, 7)
\* float("nan") for the close
NonFiniteCandle == [GoodCandle EXCEPT !.finite = FALSE]

CallCandles    == {GoodCandle, BadOhlcCandle, NonFiniteCandle}
\* "15" is a timeframe the analyzers were not configured with
CallTimeframes == Timeframes \cup {"15"}

InitAnalyzer ==
    /\ IdlePipeline
    /\ symbol_analyzers = [s \in Symbols |-> NewAnalyzer(0)]
    /\ IdleAnalyzerCalls
    /\ IdleMarketState
    /\ IdleRegistry
    /\ IdleDetector
    /\ IdleExt

Tick ==
    /\ now < MaxTime
    /\ now' = now + 1
    /\ UNCHANGED <<symbol_analyzers, last_call, pipeVars, msVars, regVars, detVars, extVars>>

CallProcessCandle(s, tf, candle) ==
    /\ last_call.n < MaxCalls
    /\ LET r == process_candle(symbol_analyzers[s], tf, candle, now)
       IN  /\ symbol_analyzers' = [symbol_analyzers EXCEPT ![s] = r.an]
           /\ last_call' = [op |-> "process_candle", symbol |-> s, tf |-> tf,
                            outcome |-> r.outcome, n |-> last_call.n + 1,
                            candle |-> candle]
    /\ UNCHANGED <<now, pipeVars, msVars, regVars, detVars, extVars>>

CallAnalyzeTimeframe(s, tf) ==
    /\ last_call.n < MaxCalls
    /\ LET r == _analyze_timeframe(symbol_analyzers[s], tf, now)
       IN  /\ symbol_analyzers' = [symbol_analyzers EXCEPT ![s] = r.an]
           /\ last_call' = [op |-> "_analyze_timeframe", symbol |-> s, tf |-> tf,
                            outcome |-> IF r.failed THEN "analysis_failed"
                                        ELSE "analyzed",
                            n |-> last_call.n + 1, candle |-> GoodCandle]
    /\ UNCHANGED <<now, pipeVars, msVars, regVars, detVars, extVars>>

NextAnalyzer ==
    \/ Tick
    \/ \E s \in Symbols, tf \in CallTimeframes, c \in CallCandles :
            CallProcessCandle(s, tf, c)
    \/ \E s \in Symbols, tf \in Timeframes : CallAnalyzeTimeframe(s, tf)

SpecAnalyzer == InitAnalyzer /\ [][NextAnalyzer]_vars

----------------------------------------------------------------------------
(* MarketState: add_candle, and the appends to its two deques, on one       *)
(* market state; every call happens one tick after the one before.          *)

CandleCapacities == {MaxCandles, MaxCandles + 1}

InitMarketState ==
    /\ IdlePipeline
    /\ symbol_analyzers = [s \in Symbols |-> NewAnalyzer(0)]
    /\ IdleAnalyzerCalls
    /\ \E cap \in CandleCapacities : ms = NewMarketState(cap)
    /\ ms_call = NoMsCall
    /\ IdleRegistry
    /\ IdleDetector
    /\ IdleExt

\* market_state.add_candle(candle, timeframe)
MsAddCandle(c) ==
    /\ ms_call.n < MaxAppends
    /\ LET r == add_candle(ms, c, "1", now)
       IN  /\ ms' = r.ms
           /\ ms_call' = [ms_call EXCEPT !.op = "add_candle", !.raised = r.raised,
                                         !.n = @ + 1, !.candle = c]
    /\ now' = now + 1
    /\ UNCHANGED <<symbol_analyzers, last_call, pipeVars, regVars, detVars, extVars>>

\* market_state.candles.append(candle), the last statement of add_candle
MsCandlesAppend(c) ==
    /\ ms_call.n < MaxAppends
    /\ ms' = [ms EXCEPT !.candles = DequeAppend(@, Stamp(c, now), ms.max_candles)]
    /\ ms_call' = [ms_call EXCEPT !.op = "candles.append", !.raised = FALSE,
                                  !.n = @ + 1, !.candle = c, !.ncandles = @ + 1]
    /\ now' = now + 1
    /\ UNCHANGED <<symbol_analyzers, last_call, pipeVars, regVars, detVars, extVars>>

\* market_state.recent_trades.append({...})
MsTradesAppend(tr) ==
    /\ ms_call.n < MaxAppends
    /\ ms' = AppendTrades(ms, <<tr>>, now).ms
    /\ ms_call' = [ms_call EXCEPT !.op = "recent_trades.append", !.raised = FALSE,
                                  !.n = @ + 1, !.ntrades = @ + 1]
    /\ now' = now + 1
    /\ UNCHANGED <<symbol_analyzers, last_call, pipeVars, regVars, detVars, extVars>>

NextMarketState ==
    \/ \E c \in CallCandles : MsAddCandle(c)
    \/ \E c \in {GoodCandle, BadOhlcCandle} : MsCandlesAppend(c)
    \/ MsTradesAppend(GoodTrade)

SpecMarketState == InitMarketState /\ [][NextMarketState]_vars

----------------------------------------------------------------------------
(* Properties of the analyzer and of the market state *)

CallStep      == last_call'.n = last_call.n + 1
FailedCall    == CallStep /\ last_call'.outcome \in {"error", "analysis_failed"}
OthersSame(s) == \A o \in Symbols \ {s} : symbol_analyzers'[o] = symbol_analyzers[o]

C35_OnlyOwnTimeframe ==
    [][(last_call'.n = last_call.n + 1 /\ last_call'.op = "process_candle") =>
        LET s      == last_call'.symbol
            tf     == last_call'.tf
            before == symbol_analyzers[s]
            after  == symbol_analyzers'[s]
        IN  /\ \A o \in Symbols \ {s} : symbol_analyzers'[o] = symbol_analyzers[o]
            /\ \A u \in Timeframes \ {tf} :
                  /\ after.market_states[u] = before.market_states[u]
                  /\ after.last_analysis_time[u] = before.last_analysis_time[u]
                  /\ after.active_zones[u] = before.active_zones[u]
            /\ tf \notin Timeframes =>
                  /\ after.market_states = before.market_states
                  /\ after.last_analysis_time = before.last_analysis_time
                  /\ after.active_zones = before.active_zones]_vars

\* a candle of a configured timeframe was handled for one symbol, then one
\* of a timeframe that is not configured
C35_Witness ==
    /\ last_call.op = "process_candle"
    /\ last_call.outcome = "unsupported"
    /\ last_call.n = 2
    /\ \E s, o \in Symbols :
          /\ symbol_analyzers[s].errors = 1
          /\ symbol_analyzers[o] = NewAnalyzer(0)

\* finite fields and consistent OHLC values
ValidCandle(c) ==
    /\ c.finite
    /\ c.low <= c.open /\ c.open <= c.high
    /\ c.low <= c.close /\ c.close <= c.high
    /\ c.volume >= 0

\* C6: process_candle for a configured timeframe appends the candle whether
\* or not the analysis runs, and the analysis runs only when the interval has
\* elapsed since last_analysis_time.
C6_IntervalGate ==
    [][(CallStep /\ last_call'.op = "process_candle"
          /\ last_call'.tf \in Timeframes /\ ValidCandle(last_call'.candle)) =>
        LET s      == last_call'.symbol
            tf     == last_call'.tf
            before == symbol_analyzers[s]
            after  == symbol_analyzers'[s]
        IN  /\ after.market_states[tf].candles =
                  DequeAppend(before.market_states[tf].candles,
                              Stamp(last_call'.candle, now),
                              before.market_states[tf].max_candles)
            /\ last_call'.outcome \in {"analyzed", "analysis_failed"} =>
                  now - before.last_analysis_time[tf] >= AnalysisInterval(tf)]_vars

MsStep(op) == ms_call'.n = ms_call.n + 1 /\ ms_call'.op = op

\* C7: add_candle returns normally; an invalid candle leaves the window
\* unchanged, a valid one becomes its newest element.
C7_AddCandleValidates ==
    [][MsStep("add_candle") =>
        /\ ~ms_call'.raised
        /\ ms'.candles = IF ValidCandle(ms_call'.candle)
                         THEN DequeAppend(ms.candles, Stamp(ms_call'.candle, now),
                                          ms.max_candles)
                         ELSE ms.candles]_vars

\* all of s but its first element, followed by x
Shifted(s, x) == Append(Tail(s), x)

\* C8: the candle window never exceeds its capacity nor the trade window
\* its own; an append to a full window evicts exactly the oldest element and
\* keeps the others in order, the new element last.
C8_BoundedFifo ==
    /\ [](Len(ms.candles) <= ms.max_candles /\ Len(ms.recent_trades) <= MaxTrades)
    /\ [][(MsStep("candles.append") /\ Len(ms.candles) = ms.max_candles) =>
            ms'.candles = Shifted(ms.candles, Stamp(ms_call'.candle, now))]_vars
    /\ [][(MsStep("recent_trades.append") /\ Len(ms.recent_trades) = MaxTrades) =>
            /\ Len(ms'.recent_trades) = MaxTrades
            /\ SubSeq(ms'.recent_trades, 1, MaxTrades - 1) = Tail(ms.recent_trades)
            /\ ms'.recent_trades[MaxTrades].timestamp = now]_vars

\* both windows are full and have evicted
C8_Witness ==
    /\ Len(ms.candles) = ms.max_candles
    /\ ms_call.ncandles > ms.max_candles
    /\ Len(ms.recent_trades) = MaxTrades
    /\ ms_call.ntrades > MaxTrades

----------------------------------------------------------------------------
(* The zone list of one pass: pivots fed to _add_or_update_zone one by one  *)

FeedPrices == {997, 1000, 1003, 1004, 1010}
ZoneTypes  == {"support", "resistance"}

InitRegistry ==
    /\ IdlePipeline
    /\ symbol_analyzers = [s \in Symbols |-> NewAnalyzer(0)]
    /\ IdleAnalyzerCalls
    /\ IdleMarketState
    /\ IdleRegistry
    /\ IdleDetector
    /\ IdleExt

\* self._add_or_update_zone(zones, zone_type, price, tolerance, timestamp)
FeedPivot(zone_type, price) ==
    /\ fed < MaxFeeds
    /\ zones' = _add_or_update_zone(zones, zone_type, price, fed + 1, fed + 1)
    /\ fed' = fed + 1
    /\ fed_log' = Append(fed_log, <<zone_type, price>>)
    /\ UNCHANGED <<pipeVars, anVars, msVars, detVars, extVars>>

NextRegistry == \E zt \in ZoneTypes, p \in FeedPrices : FeedPivot(zt, p)

SpecRegistry == InitRegistry /\ [][NextRegistry]_vars

\* C9: every zone of the list has zone_low <= center <= zone_high and
\* touches = len(touch_prices) = len(touch_times).
C9_ZoneInvariant ==
    \A i \in 1..Len(zones) :
        LET z == zones[i]
        IN  /\ z.zone_low <= z.center * PriceScale
            /\ z.center * PriceScale <= z.zone_high
            /\ z.touches = Len(z.touch_prices)
            /\ z.touches = Len(z.touch_times)

\* a zone that update_touch has modified twice, next to another zone
C9_Witness ==
    /\ Len(zones) >= 2
    /\ \E i \in 1..Len(zones) : zones[i].touches >= 3

----------------------------------------------------------------------------
(* ZoneDetector.detect_zones run again and again over a rolling candle     *)
(* window (a market state that has the candles_1m the detector reads);     *)
(* every call happens one tick after the one before.                       *)

DetCandles == {Candle(1005, 1020, 1000, 1010, 5), Candle(1005, 1020, 990, 1010, 5)}

InitDetector ==
    /\ IdlePipeline
    /\ symbol_analyzers = [s \in Symbols |-> NewAnalyzer(0)]
    /\ IdleAnalyzerCalls
    /\ IdleMarketState
    /\ IdleRegistry
    /\ IdleDetector
    /\ IdleExt

\* a candle enters the window, a deque(maxlen)
DetAddCandle(c) ==
    /\ det_seq < MaxWindow + MaxAdds
    /\ det_candles' = DequeAppend(det_candles, Stamp(c, det_clock), MaxWindow)
    /\ det_seq' = det_seq + 1
    /\ det_clock' = det_clock + 1
    /\ UNCHANGED <<det_prev, det_last, det_passes, det_scan, min_touches>>
    /\ UNCHANGED <<pipeVars, anVars, msVars, regVars, extVars>>

\* zones = zone_detector.detect_zones(market_state)
DetDetect ==
    /\ det_passes < MaxPasses
    /\ det_prev' = det_last
    /\ det_last' = detect_zones(det_candles, min_touches, det_clock)
    /\ det_scan' = IF Len(det_candles) < MinWindow THEN <<>>
                   ELSE PivotScan(det_candles, 4, <<>>, det_clock)
    /\ det_passes' = det_passes + 1
    /\ det_clock' = det_clock + 1
    /\ UNCHANGED <<det_candles, det_seq, min_touches>>
    /\ UNCHANGED <<pipeVars, anVars, msVars, regVars, extVars>>

NextDetector ==
    \/ \E c \in DetCandles : DetAddCandle(c)
    \/ DetDetect

SpecDetector == InitDetector /\ [][NextDetector]_vars

\* C10: when two successive passes both return a zone of the same type at
\* the same level, its touches in the later pass extend those of the earlier
\* pass: the count does not shrink and the earlier touch_prices are a prefix
\* of the later ones.
C10_TouchesCarriedForward ==
    det_passes >= 2 =>
        \A i \in 1..Len(det_prev), j \in 1..Len(det_last) :
            (det_prev[i].zone_type = det_last[j].zone_type
                /\ det_prev[i].center = det_last[j].center) =>
            /\ det_last[j].touches >= det_prev[i].touches
            /\ IsPrefix(det_prev[i].touch_prices, det_last[j].touch_prices)

----------------------------------------------------------------------------
(* The signal queue: the Redis list "trading_signals" (db_storage.py), the  *)
(* analysis passes that emit signals (SymbolAnalyzer._handle_signal and     *)
(* analysis_loop of main.py) and the executor that pops them                *)
(* (TradeImitation.listen_signals).                                         *)

\* the dict ZoneEngine.get_signal returns
SignalDict(side, price) ==
    [symbol |-> "BTCUSDT", side |-> side, price |-> price, type |-> "ZONE_3TF"]

\* TradingSignal(zone, "rejection", confidence), as generate_signals builds it
ZoneSignal(zone_type, confidence) ==
    [zone_type |-> zone_type, signal_type |-> "rejection", confidence |-> confidence]

DictSignals == {SignalDict("BUY", 1000), SignalDict("SELL", 1010)}
ZoneSignals == {ZoneSignal("support", 60), ZoneSignal("resistance", 80)}

\* json.dumps(signal): the text of the dict, key by key
JsonDumps(sig) ==
    <<"{", "symbol", sig.symbol, "side", sig.side, "price", sig.price,
      "type", sig.type, "}">>

\* json.loads(data)
JsonLoads(data) ==
    [symbol |-> data[3], side |-> data[5], price |-> data[7], type |-> data[9]]

\* redis LPUSH key value: the value becomes the head of the list
Lpush(list, value) == <<value>> \o list

\* redis RPOP key on a list that is not empty: the tail element leaves
RpopFromHead(list) == [value |-> Head(list), rest |-> Tail(list)]

Rpop(list) == [value |-> list[Len(list)], rest |-> SubSeq(list, 1, Len(list) - 1)]

\* RedisClient.save_signal
save_signal(list, signal) == Lpush(list, JsonDumps(signal))

\* RedisClient.pop_signal: json.loads(data) if data else None
pop_signal(list) ==
    IF list = <<>> THEN [value |-> NoSignal, rest |-> list]
    ELSE [value |-> JsonLoads(Rpop(list).value), rest |-> Rpop(list).rest]

\* TradeImitation.open_position; sl and tp are multiplied by PriceScale
\* (sl_dist = entry * 0.005, take profit at rr = 3 times the stop distance)
open_position(trades, signal) ==
    LET entry == signal.price
        sl    == IF signal.side = "BUY" THEN entry * (PriceScale - 5)
                 ELSE entry * (PriceScale + 5)
        tp    == IF signal.side = "BUY" THEN entry * (PriceScale + 15)
                 ELSE entry * (PriceScale - 15)
    IN  Append(trades, [side |-> signal.side, entry |-> entry, sl |-> sl, tp |-> tp,
                        symbol |-> signal.symbol, source |-> signal.type])

InitSignals ==
    /\ IdlePipeline
    /\ symbol_analyzers = [s \in Symbols |-> NewAnalyzer(0)]
    /\ IdleAnalyzerCalls
    /\ IdleMarketState
    /\ IdleRegistry
    /\ IdleDetector
    /\ IdleExt

\* SymbolAnalyzer._handle_signal(signal, timeframe): the signal is logged and
\* counted; sending it on is a comment
HandleSignal(signal) ==
    /\ Len(emitted) < MaxSignals
    /\ emitted' = Append(emitted, signal)
    /\ total_signals' = total_signals + 1
    /\ UNCHANGED <<trading_signals, saved, popped, pop_result, active_trades>>
    /\ UNCHANGED <<pipeVars, anVars, msVars, regVars, detVars, lifeVars, wsVars, cfVars, liveVars>>

\* analysis_loop: engine.get_signal(db) returned a signal, which is saved
AnalysisLoopSignal(sig) ==
    /\ Len(emitted) < MaxSignals
    /\ emitted' = Append(emitted, sig)
    /\ trading_signals' = save_signal(trading_signals, sig)
    /\ saved' = Append(saved, [emission |-> Len(emitted) + 1, signal |-> sig])
    /\ UNCHANGED <<popped, pop_result, total_signals, active_trades>>
    /\ UNCHANGED <<pipeVars, anVars, msVars, regVars, detVars, lifeVars, wsVars, cfVars, liveVars>>

\* one round of TradeImitation.listen_signals
ListenSignals ==
    /\ pop_result.n < MaxPops
    /\ LET r == pop_signal(trading_signals)
       IN  /\ trading_signals' = r.rest
           /\ pop_result' = [n |-> pop_result.n + 1, value |-> r.value,
                             before |-> trading_signals]
           /\ IF r.value # NoSignal
              THEN /\ popped' = Append(popped, r.value)
                   /\ active_trades' = open_position(active_trades, r.value)
              ELSE UNCHANGED <<popped, active_trades>>
    /\ UNCHANGED <<emitted, saved, total_signals>>
    /\ UNCHANGED <<pipeVars, anVars, msVars, regVars, detVars, lifeVars, wsVars, cfVars, liveVars>>

NextSignals ==
    \/ \E signal \in ZoneSignals : HandleSignal(signal)
    \/ \E sig \in DictSignals : AnalysisLoopSignal(sig)
    \/ ListenSignals

SpecSignals == InitSignals /\ [][NextSignals]_vars

\* how often emission k was pushed onto the queue
TimesPushed(k) == Cardinality({i \in 1..Len(saved) : saved[i].emission = k})

\* C11: every signal an analysis pass has emitted was pushed onto the signal
\* queue exactly once.
C11_EmittedPushedOnce == \A k \in 1..Len(emitted) : TimesPushed(k) = 1

SavedSignals == [i \in 1..Len(saved) |-> saved[i].signal]

\* the signals waiting in the list, oldest first
Waiting ==
    [i \in 1..Len(trading_signals) |->
        JsonLoads(trading_signals[Len(trading_signals) + 1 - i])]

\* C12: the k-th successful pop returns the k-th saved signal, whatever the
\* interleaving of saves and pops (what was popped, followed by what waits,
\* is what was saved, in order); a pop on the empty queue returns None and
\* leaves the queue empty.
C12_SignalFifo ==
    /\ [](popped \o Waiting = SavedSignals)
    /\ [][(pop_result'.n = pop_result.n + 1 /\ trading_signals = <<>>) =>
            /\ pop_result'.value = NoSignal
            /\ trading_signals' = <<>>
            /\ popped' = popped]_vars

\* two different signals were saved and popped, a pop on the empty queue in
\* between
C12_Witness ==
    /\ Len(popped) >= 2
    /\ popped[1] # popped[2]
    /\ pop_result.n >= 3
    /\ Len(trading_signals) >= 1

----------------------------------------------------------------------------
(* BybitWebSocketClient (save_old_files/ws_client.py): start() gathers the  *)
(* connection handler and the statistics monitor.  Whether a connection     *)
(* attempt succeeds and when an open connection is lost is up to the feed.  *)

InitWs ==
    /\ IdlePipeline
    /\ symbol_analyzers = [s \in Symbols |-> NewAnalyzer(0)]
    /\ IdleAnalyzerCalls
    /\ IdleMarketState
    /\ IdleRegistry
    /\ IdleDetector
    /\ IdleExt

\* while self.running and reconnect_attempt < MAX_RECONNECT_ATTEMPTS
HandlerLoops == running /\ reconnect_attempt < MAX_RECONNECT_ATTEMPTS

\* start(): self.running = True, redis ping answered, the two coroutines are
\* handed to asyncio.gather
WsStart ==
    /\ start_pc = "idle"
    /\ ~running
    /\ running' = TRUE
    /\ start_pc' = "gather"
    /\ handler_pc' = "check"
    /\ ws_monitor_pc' = "sleeping"
    /\ UNCHANGED <<reconnect_attempt, reconnects, exhausted>>
    /\ UNCHANGED <<pipeVars, anVars, msVars, regVars, detVars, lifeVars, sigVars, cfVars, liveVars>>

\* start(): redis.ConnectionError on ping
WsStartNoRedis ==
    /\ start_pc = "idle"
    /\ ~running
    /\ start_pc' = "done"
    /\ UNCHANGED <<running, reconnect_attempt, reconnects, handler_pc, ws_monitor_pc,
                   exhausted>>
    /\ UNCHANGED <<pipeVars, anVars, msVars, regVars, detVars, lifeVars, sigVars, cfVars, liveVars>>

\* the loop condition holds and websockets.connect succeeds: the counter is
\* reset and the receive loop begins
WsConnect ==
    /\ handler_pc = "check"
    /\ HandlerLoops
    /\ reconnect_attempt' = 0
    /\ handler_pc' = "recv"
    /\ UNCHANGED <<running, reconnects, ws_monitor_pc, start_pc, exhausted>>
    /\ UNCHANGED <<pipeVars, anVars, msVars, regVars, detVars, lifeVars, sigVars, cfVars, liveVars>>

\* the loop condition holds and websockets.connect raises
WsConnectFails ==
    /\ handler_pc = "check"
    /\ HandlerLoops
    /\ reconnects < MaxReconnects
    /\ handler_pc' = "lost"
    /\ UNCHANGED <<running, reconnect_attempt, reconnects, ws_monitor_pc, start_pc,
                   exhausted>>
    /\ UNCHANGED <<pipeVars, anVars, msVars, regVars, detVars, lifeVars, sigVars, cfVars, liveVars>>

\* the receive loop breaks: ConnectionClosed, a failed ping, any exception
WsConnectionLost ==
    /\ handler_pc = "recv"
    /\ reconnects < MaxReconnects
    /\ handler_pc' = "lost"
    /\ UNCHANGED <<running, reconnect_attempt, reconnects, ws_monitor_pc, start_pc,
                   exhausted>>
    /\ UNCHANGED <<pipeVars, anVars, msVars, regVars, detVars, lifeVars, sigVars, cfVars, liveVars>>

\* the receive loop ends because self.running is no longer set
WsRecvEnds ==
    /\ handler_pc = "recv"
    /\ ~running
    /\ handler_pc' = "lost"
    /\ UNCHANGED <<running, reconnect_attempt, reconnects, ws_monitor_pc, start_pc,
                   exhausted>>
    /\ UNCHANGED <<pipeVars, anVars, msVars, regVars, detVars, lifeVars, sigVars, cfVars, liveVars>>

\* someone calls stop() while start() is gathering: self.running = False
WsStop ==
    /\ start_pc = "gather"
    /\ running
    /\ running' = FALSE
    /\ UNCHANGED <<reconnect_attempt, reconnects, handler_pc, ws_monitor_pc, start_pc,
                   exhausted>>
    /\ UNCHANGED <<pipeVars, anVars, msVars, regVars, detVars, lifeVars, sigVars, cfVars, liveVars>>

\* if self.running: count the attempt and sleep RECONNECT_DELAY
WsBackoff ==
    /\ handler_pc = "lost"
    /\ IF running
       THEN /\ reconnect_attempt' = reconnect_attempt + 1
            /\ reconnects' = reconnects + 1
       ELSE UNCHANGED <<reconnect_attempt, reconnects>>
    /\ handler_pc' = "check"
    /\ UNCHANGED <<running, ws_monitor_pc, start_pc, exhausted>>
    /\ UNCHANGED <<pipeVars, anVars, msVars, regVars, detVars, lifeVars, sigVars, cfVars, liveVars>>

\* the loop condition fails: _connection_handler returns None
WsHandlerReturns ==
    /\ handler_pc = "check"
    /\ ~HandlerLoops
    /\ handler_pc' = "returned"
    /\ exhausted' = running
    /\ UNCHANGED <<running, reconnect_attempt, reconnects, ws_monitor_pc, start_pc>>
    /\ UNCHANGED <<pipeVars, anVars, msVars, regVars, detVars, lifeVars, sigVars, cfVars, liveVars>>

\* _stats_monitor: asyncio.sleep(30) is over, the statistics are logged
WsMonitorWakes ==
    /\ ws_monitor_pc = "sleeping"
    /\ ws_monitor_pc' = "logging"
    /\ UNCHANGED <<running, reconnect_attempt, reconnects, handler_pc, start_pc,
                   exhausted>>
    /\ UNCHANGED <<pipeVars, anVars, msVars, regVars, detVars, lifeVars, sigVars, cfVars, liveVars>>

\* _stats_monitor: while self.running
WsMonitorLoops ==
    /\ ws_monitor_pc = "logging"
    /\ ws_monitor_pc' = IF running THEN "sleeping" ELSE "returned"
    /\ UNCHANGED <<running, reconnect_attempt, reconnects, handler_pc, start_pc,
                   exhausted>>
    /\ UNCHANGED <<pipeVars, anVars, msVars, regVars, detVars, lifeVars, sigVars, cfVars, liveVars>>

\* asyncio.gather returns once both coroutines have; finally: await self.stop()
WsGatherDone ==
    /\ start_pc = "gather"
    /\ handler_pc = "returned"
    /\ ws_monitor_pc = "returned"
    /\ running' = FALSE
    /\ start_pc' = "done"
    /\ UNCHANGED <<reconnect_attempt, reconnects, handler_pc, ws_monitor_pc, exhausted>>
    /\ UNCHANGED <<pipeVars, anVars, msVars, regVars, detVars, lifeVars, sigVars, cfVars, liveVars>>

\* the user interrupts: asyncio.run cancels start(), gather cancels both
\* coroutines, finally: await self.stop()
WsInterrupt ==
    /\ start_pc = "gather"
    /\ running' = FALSE
    /\ start_pc' = "cancelled"
    /\ handler_pc' = "returned"
    /\ ws_monitor_pc' = "returned"
    /\ UNCHANGED <<reconnect_attempt, reconnects, exhausted>>
    /\ UNCHANGED <<pipeVars, anVars, msVars, regVars, detVars, lifeVars, sigVars, cfVars, liveVars>>

WsProgram ==
    \/ WsStart
    \/ WsConnect
    \/ WsRecvEnds
    \/ WsBackoff
    \/ WsHandlerReturns
    \/ WsMonitorWakes
    \/ WsMonitorLoops
    \/ WsGatherDone

NextWs ==
    \/ WsProgram
    \/ WsStartNoRedis
    \/ WsConnectFails
    \/ WsConnectionLost
    \/ WsStop
    \/ WsInterrupt

\* the event loop runs whatever coroutine can run; the feed and the user owe
\* nothing
SpecWs == InitWs /\ [][NextWs]_vars /\ WF_vars(WsProgram)

\* C13: the retries are counted up to MAX_RECONNECT_ATTEMPTS consecutive
\* failures and then stop; once they have run out, start() terminates
\* rather than going on without a connection.
C13_ExhaustionIsFatal ==
    /\ [](reconnect_attempt <= MAX_RECONNECT_ATTEMPTS)
    /\ [](handler_pc = "returned" => [](handler_pc = "returned"))
    /\ (exhausted ~> start_pc \in {"done", "cancelled"})

----------------------------------------------------------------------------
(* The whole of MultiSymbolManager.start: the consumer, the producer and    *)
(* the monitor as tasks of one event loop, and shutdown() of main.py, the   *)
(* task the handler of SIGINT/SIGTERM creates.  A task runs until it        *)
(* suspends; the signal handler and the tasks it wakes run when the loop    *)
(* is idle.                                                                 *)

\* no task is running: the producer has returned, the consumer waits in
\* get() or has stopped, the monitor sleeps or has stopped
LoopIdle ==
    /\ producer_pc = "closed"
    /\ consumer_pc = "stopped" \/ CancellationPoint(consumer_pc, message_queue)
    /\ monitor_pc \in {"sleeping", "stopped"}

InitLifecycle ==
    /\ IdlePipeline
    /\ symbol_analyzers = [s \in Symbols |-> NewAnalyzer(0)]
    /\ IdleAnalyzerCalls
    /\ IdleMarketState
    /\ IdleRegistry
    /\ IdleDetector
    /\ IdleExt

\* _performance_monitor's first step, scheduled before anything wakes the
\* consumer: it reaches asyncio.sleep(60)
MonitorStarts ==
    /\ producer_pc = "closed"
    /\ monitor_pc = "created"
    /\ consumer_pc = "get"
    /\ started = <<>>
    /\ monitor_pc' = "sleeping"
    /\ UNCHANGED <<main_pc, shutdown_pc, inflight_at_signal>>
    /\ UNCHANGED <<pipeVars, anVars, msVars, regVars, detVars, sigVars, wsVars, cfVars, liveVars>>

\* the sleep is over: the monitor reads the counters and logs them
MonitorWakes ==
    /\ LoopIdle
    /\ monitor_pc = "sleeping"
    /\ shutdown_pc \in {"none", "pending"}
    /\ monitor_pc' = "logging"
    /\ UNCHANGED <<main_pc, shutdown_pc, inflight_at_signal>>
    /\ UNCHANGED <<pipeVars, anVars, msVars, regVars, detVars, sigVars, wsVars, cfVars, liveVars>>

\* while True: back to asyncio.sleep(60)
MonitorSleeps ==
    /\ monitor_pc = "logging"
    /\ monitor_pc' = "sleeping"
    /\ UNCHANGED <<main_pc, shutdown_pc, inflight_at_signal>>
    /\ UNCHANGED <<pipeVars, anVars, msVars, regVars, detVars, sigVars, wsVars, cfVars, liveVars>>

\* SIGINT or SIGTERM arrives, at any moment
SignalArrives ==
    /\ shutdown_pc = "none"
    /\ shutdown_pc' = "pending"
    /\ inflight_at_signal' =
          IF consumer_pc \in {"acquire", "process"} THEN consumer_msg.id ELSE 0
    /\ UNCHANGED <<monitor_pc, main_pc>>
    /\ UNCHANGED <<pipeVars, anVars, msVars, regVars, detVars, sigVars, wsVars, cfVars, liveVars>>

\* shutdown(): manager.stop() finds processing_tasks empty; every other task
\* is cancelled; asyncio.gather(*tasks, return_exceptions=True) is awaited
ShutdownCancels ==
    /\ LoopIdle
    /\ shutdown_pc = "pending"
    /\ shutdown_pc' = "gathering"
    /\ UNCHANGED <<monitor_pc, main_pc, inflight_at_signal>>
    /\ UNCHANGED <<pipeVars, anVars, msVars, regVars, detVars, sigVars, wsVars, cfVars, liveVars>>

\* the consumer wakes with CancelledError: except asyncio.CancelledError: break
ConsumerCancelled == shutdown_pc = "gathering" /\ ConsumerCancel

\* the monitor wakes with CancelledError: except asyncio.CancelledError: break
MonitorCancelled ==
    /\ shutdown_pc = "gathering"
    /\ monitor_pc = "sleeping"
    /\ monitor_pc' = "stopped"
    /\ UNCHANGED <<main_pc, shutdown_pc, inflight_at_signal>>
    /\ UNCHANGED <<pipeVars, anVars, msVars, regVars, detVars, sigVars, wsVars, cfVars, liveVars>>

\* start(): gather raises CancelledError once its children are done; it is
\* logged, the finally clause cancels tasks that have ended, start() returns
StartReturns ==
    /\ shutdown_pc = "gathering"
    /\ main_pc = "gather"
    /\ producer_pc = "closed"
    /\ consumer_pc = "stopped"
    /\ monitor_pc = "stopped"
    /\ main_pc' = "returned"
    /\ UNCHANGED <<monitor_pc, shutdown_pc, inflight_at_signal>>
    /\ UNCHANGED <<pipeVars, anVars, msVars, regVars, detVars, sigVars, wsVars, cfVars, liveVars>>

\* shutdown(): gather has collected every task; loop.stop()
ShutdownDone ==
    /\ shutdown_pc = "gathering"
    /\ main_pc = "returned"
    /\ shutdown_pc' = "done"
    /\ UNCHANGED <<monitor_pc, main_pc, inflight_at_signal>>
    /\ UNCHANGED <<pipeVars, anVars, msVars, regVars, detVars, sigVars, wsVars, cfVars, liveVars>>

NextLifecycle ==
    \/ \E m \in FeedMessages : ProducerReceive(m)
    \/ ProducerClose
    \/ MonitorStarts
    \/ (monitor_pc # "created" /\ ConsumerGet)
    \/ ConsumerAcquire
    \/ ConsumerProcess
    \/ ConsumerRelease
    \/ MonitorWakes
    \/ MonitorSleeps
    \/ SignalArrives
    \/ ShutdownCancels
    \/ ConsumerCancelled
    \/ MonitorCancelled
    \/ StartReturns
    \/ ShutdownDone

SpecLifecycle == InitLifecycle /\ [][NextLifecycle]_vars

FinishedIds == {finished[i].id : i \in 1..Len(finished)}

C15_SingleWriter ==
    /\ [](\A s \in Symbols : updaters[s] <= 1)
    /\ [][MarketStates(symbol_analyzers') # MarketStates(symbol_analyzers) =>
            /\ consumer_pc = "process" /\ consumer_pc' = "release"
            /\ updaters[MsgSymbol(consumer_msg)] = 1
            /\ \A s \in Symbols \ {MsgSymbol(consumer_msg)} :
                  /\ updaters[s] = 0
                  /\ symbol_analyzers'[s] = symbol_analyzers[s]]_vars
    /\ [][(\E s \in Symbols : updaters[s] > 0) =>
            /\ received' = received
            /\ producer_pc' = producer_pc
            /\ monitor_pc' = monitor_pc
            /\ shutdown_pc' \in {shutdown_pc, "pending"}]_vars

\* the order book of one symbol was replaced twice, the monitor running
C15_Witness ==
    /\ monitor_pc = "logging"
    /\ \E i, j \in 1..Len(finished) :
          /\ i < j
          /\ finished[i].data.kind = "book" /\ finished[j].data.kind = "book"
          /\ MsgSymbol(finished[i]) = MsgSymbol(finished[j])
          /\ symbol_analyzers[MsgSymbol(finished[j])].market_states["1"].orderbook.set

----------------------------------------------------------------------------
(* ZoneDetector.detect_zones on any candle window up to MaxScanLen candles, *)
(* the candles stamped in arrival order.                                    *)

ScanCandles == {Candle(1005, 1020, 1000, 1010, 5), Candle(1005, 1020, 990, 1010, 5),
                Candle(1005, 1030, 1000, 1010, 5)}

StampAll(cs) == [i \in 1..Len(cs) |-> Stamp(cs[i], i)]

InitScan ==
    /\ IdlePipeline
    /\ symbol_analyzers = [s \in Symbols |-> NewAnalyzer(0)]
    /\ IdleAnalyzerCalls
    /\ IdleMarketState
    /\ IdleRegistry
    /\ \E n \in 0..MaxScanLen : \E cs \in [1..n -> ScanCandles] :
          /\ det_candles = StampAll(cs)
          /\ det_seq = n
          /\ det_clock = n + 1
    /\ det_prev = <<>> /\ det_last = <<>> /\ det_passes = 0 /\ det_scan = <<>>
    /\ min_touches = ZONE_MIN_TOUCHES
    /\ IdleExt

NextScan == DetDetect

SpecScan == InitScan /\ [][NextScan]_vars

----------------------------------------------------------------------------
(* Properties of the pivot scan, the clustering and the two filters *)

PassStep == det_passes' = det_passes + 1

IsSupport(z) == z.zone_type = "support"

\* seven candles, the low of the fourth strictly below the six others
StrictCentreLow(cs) ==
    /\ Len(cs) = MinWindow
    /\ \A j \in (1..MinWindow) \ {4} : cs[4].low < cs[j].low

\* C16: on a 7-candle window whose centre low is strictly below the other
\* six, the pivot scan registers one support zone, centred at that low, with
\* touches = 1 and touch_prices holding that low alone.
C16_StrictMinimumMakesSupport ==
    [][(PassStep /\ StrictCentreLow(det_candles)) =>
          LET sup == SelectSeq(det_scan', IsSupport)
          IN  /\ Len(sup) = 1
              /\ sup[1].center = det_candles[4].low
              /\ sup[1].touches = 1
              /\ sup[1].touch_prices = <<det_candles[4].low>>]_vars

\* the scan of such a window has run
C16_Witness ==
    /\ det_passes >= 1
    /\ StrictCentreLow(det_candles)
    /\ \E i \in 1..Len(det_scan) :
          /\ det_scan[i].zone_type = "support"
          /\ det_scan[i].center = det_candles[4].low
          /\ det_scan[i].touch_times = <<det_candles[4].timestamp>>

\* the index of the candle stamped ts
CandleAt(cs, ts) == CHOOSE i \in 1..Len(cs) : cs[i].timestamp = ts

StrictLow(cs, i) ==
    \A j \in ((i - 3)..(i + 3)) \ {i} : cs[i].low < cs[j].low

StrictHigh(cs, i) ==
    \A j \in ((i - 3)..(i + 3)) \ {i} : cs[i].high > cs[j].high

\* C17: every touch the pivot scan records is a candle whose low (for a
\* support zone) or high (for a resistance zone) is the strict extremum of
\* the 7-candle window around it; a candle that ties the extremum is no pivot.
C17_StrictPivotsOnly ==
    [][PassStep =>
        \A n \in 1..Len(det_scan') :
            \A k \in 1..Len(det_scan'[n].touch_times) :
                LET i == CandleAt(det_candles, det_scan'[n].touch_times[k])
                IN  IF det_scan'[n].zone_type = "support"
                    THEN StrictLow(det_candles, i)
                    ELSE StrictHigh(det_candles, i)]_vars

\* what fed_log says was fed, by type
FedOfType(zt) == SelectSeq(fed_log, LAMBDA e : e[1] = zt)

TouchesOfType(zt) ==
    LET ofType == SelectSeq(zones, LAMBDA z : z.zone_type = zt)
    IN  SumSeq([i \in 1..Len(ofType) |-> ofType[i].touches])

\* the registry after p1 and p2 of one type made one zone
OneZoneOfTwo(z, zt, p1, p2) ==
    /\ z.zone_type = zt
    /\ z.center = p1
    /\ z.touches = 2
    /\ z.touch_prices = <<p1, p2>>

\* C18 as claimed, the tolerance taken relative to p1, the center:
\* p1 then p2 of one type with |p1-p2|/p1 <= tolerance make one zone of two
\* touches; a third price of the type outside tolerance makes a second zone
\* of one touch and leaves the first alone; no price accretes to a zone of
\* the other type.
C18_ClusterRelativeToFirst ==
    /\ \A zt \in ZoneTypes, p1, p2 \in FeedPrices :
          (fed_log = <<<<zt, p1>>, <<zt, p2>>>>
                /\ PriceScale * Abs(p1 - p2) <= TolerancePerMille * p1) =>
             (Len(zones) = 1 /\ OneZoneOfTwo(zones[1], zt, p1, p2))
    /\ \A zt \in ZoneTypes, p1, p2, p3 \in FeedPrices :
          (fed_log = <<<<zt, p1>>, <<zt, p2>>, <<zt, p3>>>>
                /\ PriceScale * Abs(p1 - p2) <= TolerancePerMille * p1
                /\ PriceScale * Abs(p1 - p3) > TolerancePerMille * p1) =>
             /\ Len(zones) = 2
             /\ OneZoneOfTwo(zones[1], zt, p1, p2)
             /\ zones[2].zone_type = zt /\ zones[2].center = p3
             /\ zones[2].touches = 1
    /\ \A zt \in ZoneTypes : TouchesOfType(zt) = Len(FedOfType(zt))

\* C18 as amended, the tolerance taken relative to the price that is fed.
C18_ClusterRelativeToFed ==
    /\ \A zt \in ZoneTypes, p1, p2 \in FeedPrices :
          (fed_log = <<<<zt, p1>>, <<zt, p2>>>>
                /\ PriceScale * Abs(p1 - p2) <= TolerancePerMille * p2) =>
             (Len(zones) = 1 /\ OneZoneOfTwo(zones[1], zt, p1, p2))
    /\ \A zt \in ZoneTypes, p1, p2, p3 \in FeedPrices :
          (fed_log = <<<<zt, p1>>, <<zt, p2>>, <<zt, p3>>>>
                /\ PriceScale * Abs(p1 - p2) <= TolerancePerMille * p2
                /\ PriceScale * Abs(p1 - p3) > TolerancePerMille * p3) =>
             /\ Len(zones) = 2
             /\ OneZoneOfTwo(zones[1], zt, p1, p2)
             /\ zones[2].zone_type = zt /\ zones[2].center = p3
             /\ zones[2].touches = 1
    /\ \A zt \in ZoneTypes : TouchesOfType(zt) = Len(FedOfType(zt))

\* 1000 then 1003 made one support zone, 1010 a second, and a resistance
\* pivot at 1000 a zone of its own
C18_Witness ==
    /\ fed_log = <<<<"support", 1000>>, <<"support", 1003>>, <<"support", 1010>>,
                   <<"resistance", 1000>>>>
    /\ Len(zones) = 3
    /\ zones[1].touches = 2

\* the zones of the list that have the type and are within tolerance of price
Candidates(zs, zone_type, price) ==
    {j \in 1..Len(zs) : /\ zs[j].zone_type = zone_type
                        /\ WithinTolerance(zs[j].center, price)}

\* C28: when a pivot price is within tolerance of more than one zone of its
\* type, the touch goes to the zone whose center is nearest to the price:
\* no zone that takes a touch has a candidate closer to the price than itself.
C28_NearestCenter ==
    [][\A zt \in ZoneTypes, p \in FeedPrices :
          (fed_log' = Append(fed_log, <<zt, p>>)
                /\ Cardinality(Candidates(zones, zt, p)) > 1) =>
             /\ Len(zones') = Len(zones)
             /\ \A i \in 1..Len(zones) :
                    zones'[i].touches = zones[i].touches + 1 =>
                        \A j \in Candidates(zones, zt, p) :
                            Abs(zones[i].center - p) <= Abs(zones[j].center - p)]_vars

\* C19: every zone detect_zones returns has at least ZONE_MIN_TOUCHES
\* touches, and no zone the scan built with fewer is returned.
C19_MinTouches ==
    /\ [](\A i \in 1..Len(det_last) : det_last[i].touches >= ZONE_MIN_TOUCHES)
    /\ [][PassStep =>
            \A n \in 1..Len(det_scan') :
                det_scan'[n].touches < ZONE_MIN_TOUCHES =>
                    \A i \in 1..Len(det_last') :
                        ~(/\ det_last'[i].zone_type = det_scan'[n].zone_type
                          /\ det_last'[i].center = det_scan'[n].center)]_vars

\* a double bottom (a support zone of exactly two touches) was scanned and is
\* not among the zones returned, which are not empty
C19_Witness ==
    /\ det_passes >= 1
    /\ det_last # <<>>
    /\ \E n \in 1..Len(det_scan) :
          /\ det_scan[n].zone_type = "support"
          /\ det_scan[n].touches = 2
          /\ \A i \in 1..Len(det_last) : det_last[i].zone_type # "support"

\* C20: every zone detect_zones returns, whatever the length of the window,
\* was tested and has p_value < 0.1.
C20_OnlySignificantZones ==
    \A i \in 1..Len(det_last) : det_last[i].p_value = "<0.1"

----------------------------------------------------------------------------
(* ZoneDetector.detect_zones on windows long enough for the significance   *)
(* test, with self.min_touches set to any of several configured values.    *)
(* The window is flat (low 1000, high 1020) but for the candles at the     *)
(* pivot slots, each of which may dip or spike.                            *)

MaxValidationLen == 21     \* longest window handed to the significance test

MinTouchesValues == 1..4   \* values config.ZONE_MIN_TOUCHES is set to

PivotSlots == {6, 10, 14}

FlatCandle == Candle(1005, 1020, 1000, 1010, 5)

SlotCandles == {FlatCandle, Candle(1005, 1020, 990, 1010, 5),
                Candle(1005, 1020, 980, 1010, 5), Candle(1005, 1030, 1000, 1010, 5)}

InitValidation ==
    /\ IdlePipeline
    /\ symbol_analyzers = [s \in Symbols |-> NewAnalyzer(0)]
    /\ IdleAnalyzerCalls
    /\ IdleMarketState
    /\ IdleRegistry
    /\ \E n \in MinValidationCandles..MaxValidationLen :
       \E at \in [PivotSlots -> SlotCandles] :
          /\ det_candles = StampAll([i \in 1..n |->
                                        IF i \in PivotSlots THEN at[i] ELSE FlatCandle])
          /\ det_seq = n
          /\ det_clock = n + 1
    /\ det_prev = <<>> /\ det_last = <<>> /\ det_passes = 0 /\ det_scan = <<>>
    /\ min_touches \in MinTouchesValues
    /\ IdleExt

NextValidation == DetDetect

SpecValidation == InitValidation /\ [][NextValidation]_vars

\* the zones of the scan that pass the touches filter of detect_zones
EnoughTouches(zs, needed) ==
    LET enough(z) == z.touches >= needed IN SelectSeq(zs, enough)

\* C39: on a window of at least 20 candles detect_zones returns no zone with
\* fewer than 3 touches, whatever min_touches is: a zone of the scan with
\* fewer than 3 touches that passes the touches filter comes out of the
\* significance loop with the default p_value 1.0 and is not among the
\* zones returned.
C39_ThreeTouchesAtLeast ==
    /\ [](Len(det_candles) >= MinValidationCandles =>
            \A i \in 1..Len(det_last) : det_last[i].touches >= 3)
    /\ [][(PassStep /\ Len(det_candles) >= MinValidationCandles) =>
            LET passed == EnoughTouches(det_scan', min_touches)
                tested == SignificanceTested(passed, det_candles)
            IN  \A n \in 1..Len(passed) :
                    passed[n].touches < 3 =>
                        /\ tested[n].p_value = "1.0"
                        /\ \A i \in 1..Len(det_last') :
                              ~(/\ det_last'[i].zone_type = passed[n].zone_type
                                /\ det_last'[i].center = passed[n].center)]_vars

\* min_touches is 1, the scan of a window of 20 candles or more built a
\* support zone of one touch at 980 and one of two touches at 990, and the
\* pass returned zones, none of them one of these two
C39_Witness ==
    /\ det_passes >= 1
    /\ min_touches = 1
    /\ Len(det_candles) >= MinValidationCandles
    /\ det_last # <<>>
    /\ \E n \in 1..Len(det_scan) :
          /\ det_scan[n].zone_type = "support"
          /\ det_scan[n].touches = 1
          /\ det_scan[n].center = 980
    /\ \E n \in 1..Len(det_scan) :
          /\ det_scan[n].zone_type = "support"
          /\ det_scan[n].touches = 2
          /\ det_scan[n].center = 990
    /\ \A i \in 1..Len(det_last) :
          det_last[i].zone_type = "support" => det_last[i].center = 1000

----------------------------------------------------------------------------
(* One freshly detected zone, centred at 1000 (band 995..1005), is         *)
(* confirmed against a drawn market state: each confirmation on its own,   *)
(* then the confirmations as TradingAnalyzer._run_analysis and as          *)
(* SymbolAnalyzer._analyze_timeframe run them.                             *)

MaxOlder  == 35     \* older candles of a drawn window
MaxRecent == 20     \* recent candles of a drawn window

InsideCandle(v) == Candle(1001, 1004, 1000, 1002, v)   \* low and high in the band
SpanCandle(v)   == Candle(1000, 1020, 990, 1010, v)    \* low below, high above
AwayCandle(v)   == Candle(1015, 1020, 1010, 1015, v)   \* wholly above the band
BelowCandle(v)  == Candle(985, 1000, 980, 990, v)      \* only the high in the band

\* na candles a, then nb candles b
Window(a, na, b, nb) == [i \in 1..na |-> a] \o [i \in 1..nb |-> b]

\* n price levels from price first on, step apart; the best holds q1, the rest q
Levels(first, step, n, q1, q) ==
    [i \in 1..n |-> <<first + step * (i - 1), IF i = 1 THEN q1 ELSE q>>]

OrderBook(bids, asks) == [set |-> TRUE, bids |-> bids, asks |-> asks]

ConfirmBooks ==
    {EmptyBook,
     OrderBook(<<<<999, 2>>>>, <<<<1001, 3>>>>),
     OrderBook(Levels(999, -10, 5, 5, 5), Levels(1001, 10, 5, 5, 5)),
     OrderBook(Levels(999, -10, 5, 1, 6), Levels(1001, 10, 5, 1, 6)),
     OrderBook(Levels(989, -10, 5, 5, 5), Levels(1011, 10, 5, 5, 5))}

ConfirmCandles == {InsideCandle(4), InsideCandle(1), SpanCandle(4), AwayCandle(4)}

ConfirmWindows ==
    {Window(a, na, b, nb) : a \in ConfirmCandles, b \in ConfirmCandles,
                            na \in {0, MaxOlder}, nb \in {5, MaxRecent}}

TfWindows ==
    {Window(a, na, AwayCandle(4), nb) : a \in {InsideCandle(4), SpanCandle(4)},
                                        na \in {1, 2}, nb \in {3, 10}}

ConfirmStates ==
    {TradingMarketState(b, w1, w5, wh, <<>>) :
        b \in ConfirmBooks, w1 \in ConfirmWindows, w5 \in TfWindows,
        wh \in {Window(InsideCandle(4), 2, AwayCandle(4), 10),
                Window(AwayCandle(4), 0, AwayCandle(4), 3)}}

InitConfirm ==
    /\ IdlePipeline
    /\ symbol_analyzers = [s \in Symbols |-> NewAnalyzer(0)]
    /\ IdleAnalyzerCalls
    /\ IdleMarketState
    /\ IdleRegistry
    /\ IdleDetector
    /\ IdleLifecycle /\ IdleSignals /\ IdleWs /\ IdleLive
    /\ cf_zone = NewZone("support", 1000, 0, 0)
    /\ cf_state \in ConfirmStates
    /\ cf_ret = NoReturn
    /\ cf_now = 0

ConfirmRest == UNCHANGED <<pipeVars, anVars, msVars, regVars, detVars,
                           lifeVars, sigVars, wsVars, liveVars, cf_state, cf_now>>

\* ConfirmationSystem.confirm_with_orderbook(zone, market_state.orderbook)
ConfirmOrderbook ==
    /\ cf_ret.op = "none"
    /\ LET r == confirm_with_orderbook(cf_zone, cf_state.orderbook)
       IN  /\ cf_zone' = r.zone
           /\ cf_ret' = [cf_ret EXCEPT !.op = "confirm_with_orderbook",
                                       !.before = cf_zone,
                                       !.strength = r.strength]
    /\ ConfirmRest

\* ConfirmationSystem.confirm_with_volume(zone, list(candles_1m)[-100:])
ConfirmVolume ==
    /\ cf_ret.op = "none"
    /\ LET r == confirm_with_volume(cf_zone, LastN(cf_state.candles_1m, 100))
       IN  /\ cf_zone' = r.zone
           /\ cf_ret' = [cf_ret EXCEPT !.op = "confirm_with_volume",
                                       !.before = cf_zone,
                                       !.strength = r.strength]
    /\ ConfirmRest

\* ConfirmationSystem.confirm_multiple_timeframes(zone, market_state)
ConfirmTimeframes ==
    /\ cf_ret.op = "none"
    /\ cf_zone' = confirm_multiple_timeframes(cf_zone, cf_state).zone
    /\ cf_ret' = [cf_ret EXCEPT !.op = "confirm_multiple_timeframes",
                                !.before = cf_zone]
    /\ ConfirmRest

\* the loop body of TradingAnalyzer._run_analysis
RunAnalysisConfirm ==
    /\ cf_ret.op = "none"
    /\ cf_zone' = _run_analysis_confirm(cf_zone, cf_state)
    /\ cf_ret' = [cf_ret EXCEPT !.op = "_run_analysis", !.before = cf_zone]
    /\ ConfirmRest

\* lines 101-110 of SymbolAnalyzer._analyze_timeframe, market_state.candles
\* being the one-minute window
AnalyzeTimeframeConfirm ==
    /\ cf_ret.op = "none"
    /\ cf_zone' = _analyze_timeframe_confirm(cf_zone, cf_state.orderbook,
                                             cf_state.candles_1m)
    /\ cf_ret' = [cf_ret EXCEPT !.op = "_analyze_timeframe", !.before = cf_zone]
    /\ ConfirmRest

NextConfirm ==
    \/ ConfirmOrderbook
    \/ ConfirmVolume
    \/ ConfirmTimeframes
    \/ RunAnalysisConfirm
    \/ AnalyzeTimeframeConfirm

SpecConfirm == InitConfirm /\ [][NextConfirm]_vars

\* what a confirmation pass measured on the zone it was handed
MeasuredOrderbook == confirm_with_orderbook(cf_ret.before, cf_state.orderbook).strength
MeasuredVolume ==
    confirm_with_volume(cf_ret.before, LastN(cf_state.candles_1m, 100)).strength

\* C21: after a confirmation pass over a zone, orderbook_strength and
\* volume_strength hold the measured strength when it is above 0.3 and are
\* None when it is 0.3 or less (0 included)
C21_StoredOnlyAboveThreshold ==
    cf_ret.op \in {"_run_analysis", "_analyze_timeframe"} =>
        /\ cf_zone.orderbook_strength =
              IF cf_state.orderbook.set /\ RLt(Rat(3, 10), MeasuredOrderbook)
              THEN MeasuredOrderbook ELSE NoneStrength
        /\ cf_zone.volume_strength =
              IF RLt(Rat(3, 10), MeasuredVolume)
              THEN MeasuredVolume ELSE NoneStrength

\* the candle's range [low, high] and the band [zone_low, zone_high] meet
Intersects(zone, candle) ==
    /\ candle.low * PriceScale <= zone.zone_high
    /\ candle.high * PriceScale >= zone.zone_low

\* the candles of s whose range meets the band
Intersecting(zone, s) ==
    LET meets(c) == Intersects(zone, c)
    IN  SelectSeq(s, meets)

\* C29: after confirm_multiple_timeframes, confirmed_tf of each auxiliary
\* timeframe is TRUE exactly when at least 2 of that timeframe's last 20
\* candles intersect the zone
C29_TwoIntersectingConfirm ==
    cf_ret.op \in {"confirm_multiple_timeframes", "_run_analysis"} =>
        /\ cf_zone.confirmed_tf["5m"] =
              (Len(Intersecting(cf_zone, LastN(cf_state.candles_5m, 20))) >= 2)
        /\ cf_zone.confirmed_tf["1h"] =
              (Len(Intersecting(cf_zone, LastN(cf_state.candles_1h, 20))) >= 2)

\* min(mean volume of the intersecting candles among the last 50 / mean
\* volume of the last 20, 2) / 2, and 0 when no candle intersects
ClaimedVolumeStrength ==
    LET recent == LastN(cf_state.candles_1m, 100)
        met    == Intersecting(cf_ret.before, LastN(recent, 50))
        last   == LastN(recent, 20)
        vols(s) == SumSeq([i \in 1..Len(s) |-> s[i].volume])
    IN  IF met = <<>> THEN Zero
        ELSE RDiv(RMin(RDiv(Rat(vols(met), Len(met)), Rat(vols(last), Len(last))),
                       Rat(2, 1)),
                  Rat(2, 1))

\* C30: confirm_with_volume returns, for the most recent 50 candles at most,
\* the mean volume of every candle whose range intersects the band (one
\* spanning the band included) over the mean volume of the last 20, clamped
\* to 2 and halved; the value lies in [0, 1]
C30_VolumeOfIntersecting ==
    cf_ret.op = "confirm_with_volume" =>
        /\ cf_ret.strength = ClaimedVolumeStrength
        /\ RLe(Zero, cf_ret.strength) /\ RLe(cf_ret.strength, One)

----------------------------------------------------------------------------
(* The life of one zone at 1000: it is touched, validated, confirmed       *)
(* against the market state, its rejections are counted and it ages;       *)
(* at any point its quality is read, signals are generated from it and a   *)
(* signal on it is sized.  No code of the repository writes                *)
(* successful_rejections; the count is taken up to the touches.            *)

MaxTouches == 3     \* touches of the zone
MaxAge     == 6     \* the clock stops here (periods of 12 hours)
MaxSignalAge == 2   \* the clock stops here when signals are generated

\* stats.confidence = 1 - p_value, one value per tier of quality_score
Confidences == {Rat(93, 100), Rat(96, 100)}

\* an order book and one-minute candles that confirm the zone at full
\* strength, and ones that measure a small strength or none
ConfirmProfiles ==
    {<<OrderBook(<<<<999, 2>>>>, <<<<1001, 3>>>>),
       Window(InsideCandle(4), 5, AwayCandle(1), 20)>>,
     <<OrderBook(Levels(999, -10, 5, 1, 6), Levels(1001, 10, 5, 1, 6)),
       Window(AwayCandle(4), 0, AwayCandle(4), 3)>>}

\* five-minute candles that confirm the zone, and ones that do not
ConfirmTf == {Window(InsideCandle(4), 2, AwayCandle(4), 10),
              Window(AwayCandle(4), 0, AwayCandle(4), 10)}

QualityStates ==
    {TradingMarketState(p[1], p[2], w5, Window(AwayCandle(4), 0, AwayCandle(4), 10),
                        <<>>) :
        p \in ConfirmProfiles, w5 \in ConfirmTf}

InitQuality ==
    /\ IdlePipeline
    /\ symbol_analyzers = [s \in Symbols |-> NewAnalyzer(0)]
    /\ IdleAnalyzerCalls
    /\ IdleMarketState
    /\ IdleRegistry
    /\ IdleDetector
    /\ IdleLifecycle /\ IdleSignals /\ IdleWs /\ IdleLive
    /\ cf_zone = NewZone("support", 1000, 0, 0)
    /\ cf_state \in QualityStates
    /\ cf_ret = NoReturn
    /\ cf_now = 0

QualityRest == UNCHANGED <<pipeVars, anVars, msVars, regVars, detVars,
                           lifeVars, sigVars, wsVars, liveVars, cf_state>>

Returned(op) == [NoReturn EXCEPT !.op = op]

\* zone.update_touch(price, timestamp)
QTouch ==
    /\ cf_zone.touches < MaxTouches
    /\ cf_zone' = update_touch(cf_zone, 1000, cf_now)
    /\ cf_ret' = Returned("update_touch")
    /\ UNCHANGED cf_now
    /\ QualityRest

\* zone.stats.confidence = 1 - p_value
QValidate(c) ==
    /\ cf_zone.confidence = Zero
    /\ cf_zone' = [cf_zone EXCEPT !.confidence = c]
    /\ cf_ret' = Returned("_statistical_validation")
    /\ UNCHANGED cf_now
    /\ QualityRest

\* the confirmations of _run_analysis
QConfirm ==
    /\ cf_zone.confirmed_tf = <<>>
    /\ cf_zone' = _run_analysis_confirm(cf_zone, cf_state)
    /\ cf_ret' = Returned("_run_analysis")
    /\ UNCHANGED cf_now
    /\ QualityRest

\* a rejection at the zone is counted
QReject ==
    /\ cf_zone.successful_rejections < cf_zone.touches
    /\ cf_zone' = [cf_zone EXCEPT !.successful_rejections = @ + 1]
    /\ cf_ret' = Returned("rejection")
    /\ UNCHANGED cf_now
    /\ QualityRest

\* twelve hours pass
QTick ==
    /\ cf_now < MaxAge
    /\ cf_now' = cf_now + 1
    /\ cf_ret' = Returned("tick")
    /\ UNCHANGED cf_zone
    /\ QualityRest

NextQuality ==
    \/ QTouch
    \/ \E c \in Confidences : QValidate(c)
    \/ QConfirm
    \/ QReject
    \/ QTick

SpecQuality == InitQuality /\ [][NextQuality]_vars

\* C22: the quality score of the zone, read at any time, lies in [0, 100]
C22_QualityInRange ==
    LET q == quality_score(cf_zone, cf_now)
    IN  RLe(Zero, q) /\ RLe(q, Rat(100, 1))

\* a zone touched again, confirmed on both counts, long untouched
C22_Witness ==
    /\ cf_zone.touches >= 3
    /\ Truthy(cf_zone.orderbook_strength)
    /\ Truthy(cf_zone.volume_strength)
    /\ cf_now - cf_zone.last_touch >= 3

----------------------------------------------------------------------------
(* Signals from one zone at 1000: the zone comes out of detection with     *)
(* some touches, a confidence and a rejection count; it is confirmed       *)
(* against the market state and ages; generate_signals runs over it, its   *)
(* bounce confidence is computed and a signal on it is sized.              *)

\* TradingSignal.confidence handed to calculate_position_size
SignalConfidences == {Rat(9, 10), One}

\* the last two candles of candles_1m: <<prev, last>>
BouncePairs ==
    {<<InsideCandle(1), AwayCandle(1)>>,     \* touched on both sides, close up
     <<InsideCandle(1), BelowCandle(1)>>,    \* touched on both sides, close down
     <<InsideCandle(1), InsideCandle(1)>>,   \* touched, close unchanged
     <<AwayCandle(1), InsideCandle(1)>>}     \* not touched, close down

BounceStates ==
    {TradingMarketState(p[1], p[2] \o tail, w5,
                        Window(AwayCandle(4), 0, AwayCandle(4), 10), <<>>) :
        p \in ConfirmProfiles, tail \in BouncePairs, w5 \in ConfirmTf}

\* the zone after k more touches at its centre
RECURSIVE Touched(_, _, _)
Touched(zone, k, t) ==
    IF k = 0 THEN zone ELSE Touched(update_touch(zone, zone.center, t), k - 1, t)

InitBounce ==
    /\ IdlePipeline
    /\ symbol_analyzers = [s \in Symbols |-> NewAnalyzer(0)]
    /\ IdleAnalyzerCalls
    /\ IdleMarketState
    /\ IdleRegistry
    /\ IdleDetector
    /\ IdleLifecycle /\ IdleSignals /\ IdleWs /\ IdleLive
    /\ \E zt \in {"support", "resistance"}, k \in 0..(MaxTouches - 1),
          c \in {Zero} \cup Confidences, won \in BOOLEAN :
          LET z == Touched(NewZone(zt, 1000, 0, 0), k, 0)
          IN  cf_zone = [z EXCEPT !.confidence = c,
                                  !.successful_rejections =
                                      IF won THEN z.touches ELSE 0]
    /\ cf_state \in BounceStates
    /\ cf_ret = NoReturn
    /\ cf_now = 0

\* market_state.active_zones = zones; generate_signals(market_state)
QGenerate ==
    /\ cf_ret' = [Returned("generate_signals") EXCEPT !.signals =
                     generate_signals([cf_state EXCEPT !.active_zones = <<cf_zone>>],
                                      MIN_CONFIDENCE, cf_now)]
    /\ UNCHANGED <<cf_zone, cf_now>>
    /\ QualityRest

\* self._calculate_bounce_confidence(zone, market_state)
QConfidence ==
    /\ cf_ret' = [Returned("_calculate_bounce_confidence") EXCEPT !.confidence =
                     _calculate_bounce_confidence(cf_zone, cf_now)]
    /\ UNCHANGED <<cf_zone, cf_now>>
    /\ QualityRest

\* TradingSignal(zone, "rejection", c).calculate_position_size()
QSize(c) ==
    /\ cf_ret' = [Returned("calculate_position_size") EXCEPT
                     !.confidence = c,
                     !.size = calculate_position_size(
                                  TradingSignal(cf_zone, "rejection", c),
                                  ACCOUNT_RISK_PERCENT, cf_now)]
    /\ UNCHANGED <<cf_zone, cf_now>>
    /\ QualityRest

\* twelve hours pass
QSignalTick ==
    /\ cf_now < MaxSignalAge
    /\ cf_now' = cf_now + 1
    /\ cf_ret' = Returned("tick")
    /\ UNCHANGED cf_zone
    /\ QualityRest

NextBounce ==
    \/ QConfirm
    \/ QSignalTick
    \/ QGenerate
    \/ QConfidence
    \/ \E c \in SignalConfidences : QSize(c)

SpecBounce == InitBounce /\ [][NextBounce]_vars

\* C40: every signal generate_signals has just returned carries as its
\* timestamp the time of that analysis pass, the clock at which it was
\* created.
C40_TimestampIsCreationTime ==
    cf_ret.op = "generate_signals" =>
        \A i \in 1..Len(cf_ret.signals) : cf_ret.signals[i].timestamp >= cf_now

\* the conditions of a rejection signal, read off the zone and the last two
\* one-minute candles
PriorCandle   == cf_state.candles_1m[Len(cf_state.candles_1m) - 1]
CurrentCandle == cf_state.candles_1m[Len(cf_state.candles_1m)]
PriorExtremeInside ==
    LET e == IF cf_zone.zone_type = "support" THEN PriorCandle.low
             ELSE PriorCandle.high
    IN  cf_zone.zone_low <= e * PriceScale /\ e * PriceScale <= cf_zone.zone_high
ClosedAway ==
    IF cf_zone.zone_type = "support"
    THEN CurrentCandle.close > PriorCandle.close
    ELSE CurrentCandle.close < PriorCandle.close
RejectionDue ==
    /\ RLe(Rat(40, 1), quality_score(cf_zone, cf_now))
    /\ PriorExtremeInside
    /\ ClosedAway
    /\ RLe(Rat(7, 10), _calculate_bounce_confidence(cf_zone, cf_now))

\* C24: generate_signals returns a rejection signal for the active zone
\* exactly when its quality is at least 40, the prior candle's low (support)
\* or high (resistance) is inside the band, the current close is strictly
\* above (support) or below (resistance) the prior close and the confidence
\* is at least 0.7; it returns at most one signal for the zone
C24_SignalIffBounce ==
    cf_ret.op = "generate_signals" =>
        /\ Len(cf_ret.signals) <= 1
        /\ (Len(cf_ret.signals) = 1) <=> RejectionDue
        /\ \A i \in 1..Len(cf_ret.signals) :
              /\ cf_ret.signals[i].signal_type = "rejection"
              /\ cf_ret.signals[i].zone = cf_zone

\* a pass that returned a signal
C24_Witness ==
    /\ cf_ret.op = "generate_signals"
    /\ Len(cf_ret.signals) = 1

\* 0.5 + 0.2 volume_strength + 0.15 orderbook_strength + 0.15 if a timeframe
\* is confirmed + 0.1 quality / 100, None counting as 0
RawConfidence ==
    LET v == IF cf_zone.volume_strength = NoneStrength THEN Zero
             ELSE cf_zone.volume_strength
        o == IF cf_zone.orderbook_strength = NoneStrength THEN Zero
             ELSE cf_zone.orderbook_strength
        tf == IF \E k \in DOMAIN cf_zone.confirmed_tf : cf_zone.confirmed_tf[k]
              THEN Rat(15, 100) ELSE Zero
    IN  RAdd(Rat(1, 2),
             RAdd(RMul(Rat(1, 5), v),
                  RAdd(RMul(Rat(3, 20), o),
                       RAdd(tf, RMul(quality_score(cf_zone, cf_now), Rat(1, 1000))))))

\* C25: the bounce confidence is min(1, the raw sum); it lies in [0, 1] and
\* is exactly 1 when the raw sum is above 1
C25_ConfidenceClamped ==
    cf_ret.op = "_calculate_bounce_confidence" =>
        /\ cf_ret.confidence = RMin(One, RawConfidence)
        /\ RLe(Zero, cf_ret.confidence) /\ RLe(cf_ret.confidence, One)
        /\ RLt(One, RawConfidence) => cf_ret.confidence = One

\* a confidence computed from a raw sum above 1
C25_Witness ==
    /\ cf_ret.op = "_calculate_bounce_confidence"
    /\ RLt(One, RawConfidence)

\* risk_base * (confidence * 2) * (quality / 100) * (1.5 if a timeframe is
\* confirmed, else 1), risk_base = 0.02
UncappedSize ==
    LET m == IF \E k \in DOMAIN cf_zone.confirmed_tf : cf_zone.confirmed_tf[k]
             THEN Rat(3, 2) ELSE One
    IN  RMul(RMul(RMul(Rat(2, 100), RMul(cf_ret.confidence, Rat(2, 1))),
                  RDiv(quality_score(cf_zone, cf_now), Rat(100, 1))),
             m)

\* confidence 0.9 on a zone of quality 80 with no confirmed timeframe
SizingExample ==
    /\ cf_ret.op = "calculate_position_size"
    /\ cf_ret.confidence = Rat(9, 10)
    /\ quality_score(cf_zone, cf_now) = Rat(80, 1)
    /\ \A k \in DOMAIN cf_zone.confirmed_tf : ~cf_zone.confirmed_tf[k]

\* C26: the position size is the product capped at 3 * risk_base; the
\* example of the spec gives 0.0288
C26_PositionSize ==
    cf_ret.op = "calculate_position_size" =>
        /\ cf_ret.size = RMin(UncappedSize, Rat(6, 100))
        /\ SizingExample => cf_ret.size = Rat(288, 10000)

\* the example has been sized
C26_Witness == SizingExample /\ cf_ret.size = Rat(288, 10000)

----------------------------------------------------------------------------
(* The live pipeline: BybitDataStream.connect (ws_client.py) stores closed  *)
(* candles through RedisClient.push_candle (db_storage.py) and              *)
(* analysis_loop (main.py) answers the notifications with                   *)
(* ZoneEngine.get_signal (ta_logic.py).  Every await on Redis is a step.    *)

MaxWsMessages == 4     \* messages ws.recv() returns in one run
TrimStop      == 2     \* stands for the 500 of ltrim(key, 0, 500)

\* redis LTRIM key start stop: the elements of index start..stop (0-based,
\* both ends included) stay
Ltrim(list, start, stop) == SubSeq(list, start + 1, Min({Len(list), stop + 1}))

\* json.dumps(candle) and json.loads(d) of a candle dict
JsonDumpsCandle(candle) ==
    <<"{", "t", candle.t, "o", candle.o, "h", candle.h, "l", candle.l,
      "c", candle.c, "v", candle.v, "}">>

JsonLoadsCandle(d) == LiveCandle(d[3], d[5], d[7], d[9], d[11], d[13])

Reverse(list) == [i \in 1..Len(list) |-> list[Len(list) + 1 - i]]

\* RedisClient.get_history(tf): lrange(key, 0, -1), reversed and decoded
get_history(st, tf) ==
    LET data == st[HistoryKey(tf)]
    IN  [i \in 1..Len(data) |-> JsonLoadsCandle(Reverse(data)[i])]

\* the numbers the feed sends, as texts, and int(...) / float(...) of a text
LiveNumbers == (0..MaxWsMessages + 1) \cup {1, 994, 995, 996, 998, 999, 1000, 1001,
                                            1005, 1006, 1008, 1010, 1012, 1016, 1017}
ParseNumber(text) == CHOOSE n \in LiveNumbers : ToString(n) = text

\* a kline message of Bybit V5: data is a list of one kline, numbers are texts
WsKline(tf, confirm, start, o, h, l, c) ==
    [kind |-> "kline", topic |-> <<"kline", tf, SYMBOL>>, confirm |-> confirm,
     start |-> ToString(start), open |-> ToString(o), high |-> ToString(h),
     low |-> ToString(l), close |-> ToString(c), volume |-> "1"]

\* a message that has no "data" (a pong, the subscription reply), and one
\* whose data list is empty
WsNoData    == [NoWsMessage EXCEPT !.kind = "nodata"]
WsEmptyData == [NoWsMessage EXCEPT !.kind = "empty"]

SmallDown(tf, confirm, start) == WsKline(tf, confirm, start, 1005, 1006, 999, 1000)
BigUp(tf, confirm, start)     == WsKline(tf, confirm, start, 998, 1010, 996, 1008)

\* what ws.recv() can return as message number start
WsMessages(start) ==
    {WsNoData, WsEmptyData, BigUp(TF_ENTRY, "false", start)}
      \cup {SmallDown(TF_ENTRY, "true", start), BigUp(TF_ENTRY, "true", start),
            BigUp(TF_LEVEL, "true", start), BigUp(TF_TREND, "true", start)}

\* kline_data.get("confirm")
ConfirmedAlways(msg) == TRUE

Confirmed(msg) == msg.confirm = "true"

\* lines 54-63 of connect: the timeframe of the topic and the candle dict
CandleOf(msg) ==
    [tf |-> msg.topic[2],
     candle |-> LiveCandle(ParseNumber(msg.start), ParseNumber(msg.open),
                           ParseNumber(msg.high), ParseNumber(msg.low),
                           ParseNumber(msg.close), ParseNumber(msg.volume))]

\* SignalGenerator.check_engulfing(df): "BUY", "SELL" or "" for None
check_engulfing(df) ==
    IF Len(df) < 2 THEN ""
    ELSE LET prev == df[Len(df) - 1]
             curr == df[Len(df)]
             prev_body == prev.c - prev.o
             curr_body == curr.c - curr.o
         IN  IF prev_body < 0 /\ curr_body > 0 /\ curr.c > prev.o /\ curr.o < prev.c
             THEN "BUY"
             ELSE IF prev_body > 0 /\ curr_body < 0 /\ curr.c < prev.o
                        /\ curr.o > prev.c
                  THEN "SELL"
                  ELSE ""

\* ZoneEngine.get_signal once the three histories are read (lines 48-75).
\* trend and zones are the results of the pandas ewm and of get_zones (DBSCAN
\* of the pivots), which the callers draw.
get_signal(h15, h60, h240, trend, zs) ==
    IF h15 = <<>> \/ h60 = <<>> \/ h240 = <<>> THEN NoLiveSignal
    ELSE LET pattern == check_engulfing(h15)
             price   == h15[Len(h15)].c
         IN  IF /\ pattern # ""
                /\ \E i \in 1..Len(zs) : zs[i].bottom <= price /\ price <= zs[i].top
                /\ \/ (pattern = "BUY" /\ trend = "UP")
                   \/ (pattern = "SELL" /\ trend = "DOWN")
             THEN [symbol |-> SYMBOL, side |-> pattern, price |-> price,
                   type |-> "ZONE_3TF"]
             ELSE NoLiveSignal

Trends   == {"UP", "DOWN"}
ZoneSets == {<<>>, <<[level |-> 1000, top |-> 1010, bottom |-> 990]>>}

InitLive ==
    /\ IdlePipeline
    /\ symbol_analyzers = [s \in Symbols |-> NewAnalyzer(0)]
    /\ IdleAnalyzerCalls
    /\ IdleMarketState
    /\ IdleRegistry
    /\ IdleDetector
    /\ IdleExt

LiveRest == UNCHANGED <<pipeVars, anVars, msVars, regVars, detVars, lifeVars, wsVars,
                        cfVars>>

\* msg = await ws.recv() and what connect does with it up to push_candle
StreamRecv(msg) ==
    /\ stream_pc = "recv"
    /\ ws_received < MaxWsMessages
    /\ ws_received' = ws_received + 1
    /\ stream_msg' = msg
    /\ IF msg.kind = "nodata"
       THEN UNCHANGED <<stream_pc, stream_cur>>
       ELSE IF msg.kind = "empty"
            THEN stream_pc' = "reconnect" /\ UNCHANGED stream_cur
            ELSE IF Confirmed(msg)
                 THEN stream_pc' = "lpush" /\ stream_cur' = CandleOf(msg)
                 ELSE UNCHANGED <<stream_pc, stream_cur>>
    /\ UNCHANGED <<store, candle_updates, loop_pc, loop_note, loop_read,
                   notes_received, live_saves, trade_stats, trade_pc, trade_history>>
    /\ UNCHANGED sigVars
    /\ LiveRest

\* data["data"][0] raised IndexError: the except clause sleeps and reconnects
StreamReconnect ==
    /\ stream_pc = "reconnect"
    /\ stream_pc' = "recv"
    /\ UNCHANGED <<store, candle_updates, stream_cur, stream_msg, ws_received,
                   loop_pc, loop_note, loop_read, notes_received, live_saves,
                   trade_stats, trade_pc, trade_history>>
    /\ UNCHANGED sigVars
    /\ LiveRest

\* push_candle: await self.client.lpush(key, json.dumps(candle))
PushLpush ==
    /\ stream_pc = "lpush"
    /\ store' = [store EXCEPT ![HistoryKey(<<stream_cur.tf>>)] =
                    Lpush(@, JsonDumpsCandle(stream_cur.candle))]
    /\ stream_pc' = "ltrim"
    /\ UNCHANGED <<candle_updates, stream_cur, stream_msg, ws_received,
                   loop_pc, loop_note, loop_read, notes_received, live_saves,
                   trade_stats, trade_pc, trade_history>>
    /\ UNCHANGED sigVars
    /\ LiveRest

\* push_candle: await self.client.ltrim(key, 0, 500)
PushLtrim ==
    /\ stream_pc = "ltrim"
    /\ store' = [store EXCEPT ![HistoryKey(<<stream_cur.tf>>)] = Ltrim(@, 0, TrimStop)]
    /\ stream_pc' = "publish"
    /\ UNCHANGED <<candle_updates, stream_cur, stream_msg, ws_received,
                   loop_pc, loop_note, loop_read, notes_received, live_saves,
                   trade_stats, trade_pc, trade_history>>
    /\ UNCHANGED sigVars
    /\ LiveRest

\* push_candle: await self.client.publish("candle_updates", tf)
PushPublish ==
    /\ stream_pc = "publish"
    /\ candle_updates' = Append(candle_updates,
                                [type |-> "message", data |-> stream_cur.tf,
                                 cause |-> stream_cur.candle, n |-> 0])
    /\ stream_pc' = "recv"
    /\ UNCHANGED <<store, stream_cur, stream_msg, ws_received,
                   loop_pc, loop_note, loop_read, notes_received, live_saves,
                   trade_stats, trade_pc, trade_history>>
    /\ UNCHANGED sigVars
    /\ LiveRest

\* analysis_loop: msg["type"] == "message" and msg["data"] == config.TF_ENTRY
TriggersAny(note) == note.type = "message"

Triggers(note) == note.type = "message" /\ note.data = TF_ENTRY

\* analysis_loop: ps.listen() yields a message (lines 11-12)
LoopListen ==
    /\ loop_pc = "listen"
    /\ candle_updates # <<>>
    /\ candle_updates' = Tail(candle_updates)
    /\ notes_received' = notes_received + 1
    /\ loop_note' = [Head(candle_updates) EXCEPT !.n = notes_received + 1]
    /\ loop_pc' = IF Triggers(Head(candle_updates)) THEN "h15" ELSE "listen"
    /\ loop_read' = NoRead
    /\ UNCHANGED <<store, stream_pc, stream_cur, stream_msg, ws_received, live_saves,
                   trade_stats, trade_pc, trade_history>>
    /\ UNCHANGED sigVars
    /\ LiveRest

\* get_signal: h15 = await db.get_history(config.TF_ENTRY)
LoopH15 ==
    /\ loop_pc = "h15"
    /\ loop_read' = [loop_read EXCEPT !.h15 = get_history(store, <<TF_ENTRY>>)]
    /\ loop_pc' = "h60"
    /\ UNCHANGED <<store, candle_updates, stream_pc, stream_cur, stream_msg,
                   ws_received, loop_note, notes_received, live_saves,
                   trade_stats, trade_pc, trade_history>>
    /\ UNCHANGED sigVars
    /\ LiveRest

\* get_signal: h60 = await db.get_history(config.TF_LEVEL)
LoopH60 ==
    /\ loop_pc = "h60"
    /\ loop_read' = [loop_read EXCEPT !.h60 = get_history(store, <<TF_LEVEL>>)]
    /\ loop_pc' = "h240"
    /\ UNCHANGED <<store, candle_updates, stream_pc, stream_cur, stream_msg,
                   ws_received, loop_note, notes_received, live_saves,
                   trade_stats, trade_pc, trade_history>>
    /\ UNCHANGED sigVars
    /\ LiveRest

\* get_signal: h240 = await db.get_history(config.TF_TREND) and the rest of
\* get_signal; back in analysis_loop, "if sig:"
LoopH240(trend, zs) ==
    /\ loop_pc = "h240"
    /\ LET h240 == get_history(store, <<TF_TREND>>)
           sig  == get_signal(loop_read.h15, loop_read.h60, h240, trend, zs)
       IN  /\ loop_read' = [loop_read EXCEPT !.h240 = h240, !.sig = sig]
           /\ loop_pc' = IF sig # NoLiveSignal THEN "save" ELSE "listen"
    /\ UNCHANGED <<store, candle_updates, stream_pc, stream_cur, stream_msg,
                   ws_received, loop_note, notes_received, live_saves,
                   trade_stats, trade_pc, trade_history>>
    /\ UNCHANGED sigVars
    /\ LiveRest

\* analysis_loop: await db.save_signal(sig)
LoopSave ==
    /\ loop_pc = "save"
    /\ trading_signals' = save_signal(trading_signals, loop_read.sig)
    /\ live_saves' = Append(live_saves, [note |-> loop_note.n, signal |-> loop_read.sig])
    /\ loop_pc' = "listen"
    /\ UNCHANGED <<store, candle_updates, stream_pc, stream_cur, stream_msg,
                   ws_received, loop_note, loop_read, notes_received,
                   trade_stats, trade_pc, trade_history>>
    /\ UNCHANGED <<emitted, saved, popped, pop_result, total_signals, active_trades>>
    /\ LiveRest

NextLive ==
    \/ \E msg \in WsMessages(ws_received + 1) : StreamRecv(msg)
    \/ StreamReconnect
    \/ PushLpush
    \/ PushLtrim
    \/ PushPublish
    \/ LoopListen
    \/ LoopH15
    \/ LoopH60
    \/ \E trend \in Trends, zs \in ZoneSets : LoopH240(trend, zs)
    \/ LoopSave

SpecLive == InitLive /\ [][NextLive]_vars

\* the candles of get_history are in the order they were pushed
OldestFirst(history) ==
    \A i, j \in 1..Len(history) : i < j => history[i].t < history[j].t

\* C31: the stored history of a timeframe never holds more than the capacity
\* (500 candles), also between the commands of push_candle, and get_history
\* returns it oldest first with the newest pushed candle last.
C31_RollingHistory ==
    \A tf \in {TF_ENTRY, TF_LEVEL, TF_TREND} :
        /\ Len(store[HistoryKey(<<tf>>)]) <= TrimStop
        /\ OldestFirst(get_history(store, <<tf>>))
        /\ (stream_pc \in {"ltrim", "publish"} /\ stream_cur.tf = tf) =>
              get_history(store, <<tf>>)[Len(store[HistoryKey(<<tf>>)])]
                  = stream_cur.candle

InHistory(candle, history) == \E i \in 1..Len(history) : history[i] = candle

Newest(candle, history) == history # <<>> /\ history[Len(history)] = candle

\* the list is full of candles stored after this one
Evicted(candle, history) ==
    /\ Len(history) >= TrimStop + 1
    /\ \A i \in 1..Len(history) : history[i].t > candle.t

\* the steps of analysis_loop and push_candle, by what they change
Receives    == notes_received' = notes_received + 1 /\ loop_note'.type = "message"
ReadsEntry  == loop_pc = "h15" /\ loop_pc' = "h60"
Publishes   == stream_pc = "publish" /\ stream_pc' = "recv"
OneSavePerNote ==
    \A i, j \in 1..Len(live_saves) : live_saves[i].note = live_saves[j].note => i = j

\* C36 as claimed: when analysis_loop receives a notification, the candle
\* that caused it is the newest element of the history of its timeframe and
\* is in the history get_signal then reads; get_signal is triggered only by a
\* notification of the entry timeframe and at most one signal is saved per
\* notification.
C36_StoreBeforeNotify ==
    [][/\ Receives => Newest(loop_note'.cause, get_history(store, <<loop_note'.data>>))
       /\ ReadsEntry => InHistory(loop_note.cause, loop_read'.h15)
       /\ loop_pc' = "h15" => (loop_note'.type = "message" /\ loop_note'.data = TF_ENTRY)
       /\ OneSavePerNote']_vars

\* C36 as amended: the candle is the newest element of its history when the
\* notification is published; when the notification is received, and when
\* get_signal reads the entry history, the candle is in the history unless
\* the list has since been filled with later candles of the timeframe;
\* get_signal is triggered only by a notification of the entry timeframe and
\* at most one signal is saved per notification.
C36_StoredWhenPublished ==
    [][/\ Publishes => Newest(stream_cur.candle, get_history(store, <<stream_cur.tf>>))
       /\ Receives =>
            LET h == get_history(store, <<loop_note'.data>>)
            IN  InHistory(loop_note'.cause, h) \/ Evicted(loop_note'.cause, h)
       /\ ReadsEntry =>
            \/ InHistory(loop_note.cause, loop_read'.h15)
            \/ Evicted(loop_note.cause, loop_read'.h15)
       /\ loop_pc' = "h15" => (loop_note'.type = "message" /\ loop_note'.data = TF_ENTRY)
       /\ OneSavePerNote']_vars

\* a signal was saved for a notification whose candle get_signal read, while
\* a later candle of the entry timeframe was already the newest
C36_Witness ==
    /\ live_saves # <<>>
    /\ loop_pc = "listen"
    /\ loop_note.n = live_saves[Len(live_saves)].note
    /\ InHistory(loop_note.cause, loop_read.h15)
    /\ ~Newest(loop_note.cause, loop_read.h15)

\* C37: the store and the notification channel change only while a kline
\* message whose confirm flag is set is being pushed, and what is pushed is
\* the candle of that message; a message without data, with an empty data
\* list or with the flag unset or absent changes no history and publishes
\* nothing.
C37_OnlyClosedCandles ==
    [][/\ (store' # store \/ Len(candle_updates') > Len(candle_updates)) =>
            /\ stream_msg.kind = "kline" /\ stream_msg.confirm = "true"
            /\ stream_cur = CandleOf(stream_msg)
       /\ store' # store =>
            \A k \in LiveKeys :
                store'[k] # store[k] =>
                    /\ k = HistoryKey(<<stream_msg.topic[2]>>)
                    /\ \/ store'[k] = Lpush(store[k], JsonDumpsCandle(stream_cur.candle))
                       \/ store'[k] = SubSeq(store[k], 1, Len(store[k]) - 1)
       /\ (ws_received' # ws_received
                /\ ~(stream_msg'.kind = "kline" /\ stream_msg'.confirm = "true")) =>
            /\ stream_pc' \in {"recv", "reconnect"}
            /\ store' = store
            /\ candle_updates' = candle_updates]_vars

\* a still-forming kline arrived after a closed one had been stored and
\* published, and nothing was added for it
C37_Witness ==
    /\ stream_msg.kind = "kline" /\ stream_msg.confirm = "false"
    /\ stream_pc = "recv"
    /\ ws_received = 2
    /\ Len(store[HistoryKey(<<TF_ENTRY>>)]) = 1
    /\ Len(candle_updates) + notes_received = 2

----------------------------------------------------------------------------
(* The paper-trade executor (trade_imitation.py): listen_signals opens a    *)
(* position for every signal it pops, monitor_market closes positions       *)
(* against the last close of the history it reads.  It runs in a process of *)
(* its own, next to the feed client, and shares Redis with it.              *)

MaxQueued == 3     \* signals waiting in "trading_signals" at the start

\* what the loop body of monitor_market does with one trade at current_price
\* (lines 58-85); sl and tp are multiplied by PriceScale
Outcome(trade, current_price) ==
    IF trade.side = "BUY"
    THEN IF current_price * PriceScale >= trade.tp THEN "win"
         ELSE IF current_price * PriceScale <= trade.sl THEN "loss" ELSE "open"
    ELSE IF trade.side = "SELL"
         THEN IF current_price * PriceScale <= trade.tp THEN "win"
              ELSE IF current_price * PriceScale >= trade.sl THEN "loss" ELSE "open"
         ELSE "open"

\* list.remove(x): the first element equal to x leaves
RemoveNone(list, x) == list

RemoveFirst(list, x) ==
    LET hit == {i \in 1..Len(list) : list[i] = x}
    IN  IF hit = {} THEN list
        ELSE SubSeq(list, 1, Min(hit) - 1) \o SubSeq(list, Min(hit) + 1, Len(list))

\* for trade in self.active_trades[:] (lines 57-92)
RECURSIVE MonitorPass(_, _, _, _)
MonitorPass(copy, trades, stats, current_price) ==
    IF copy = <<>> THEN [trades |-> trades, stats |-> stats]
    ELSE LET o == Outcome(Head(copy), current_price)
         IN  MonitorPass(Tail(copy),
                         IF o = "open" THEN trades ELSE RemoveFirst(trades, Head(copy)),
                         [wins   |-> stats.wins + (IF o = "win" THEN 1 ELSE 0),
                          losses |-> stats.losses + (IF o = "loss" THEN 1 ELSE 0)],
                         current_price)

\* closed entry-timeframe candles of the feed
Rally(start) == WsKline(TF_ENTRY, "true", start, 1001, 1017, 1000, 1016)
Slump(start) == WsKline(TF_ENTRY, "true", start, 999, 1000, 994, 994)

TradeFeed(start) == {Rally(start), Slump(start)}

\* the signals main.py has saved before the executor starts, newest first
TradeQueues ==
    UNION {[1..n -> {JsonDumps(sig) : sig \in DictSignals}] : n \in 0..MaxQueued}

\* what Redis holds at the start under the key monitor_market reads
MonitoredHistories ==
    {<<>>, <<JsonDumpsCandle(LiveCandle(0, 1001, 1016, 1000, 1015, 1))>>}

InitTrades ==
    /\ IdlePipeline
    /\ symbol_analyzers = [s \in Symbols |-> NewAnalyzer(0)]
    /\ IdleAnalyzerCalls
    /\ IdleMarketState
    /\ IdleRegistry
    /\ IdleDetector
    /\ IdleLifecycle /\ IdleWs /\ IdleConfirm
    /\ trading_signals \in TradeQueues
    /\ emitted = <<>> /\ saved = <<>> /\ popped = <<>> /\ pop_result = NoPop
    /\ total_signals = 0 /\ active_trades = <<>>
    /\ store \in {[[k \in LiveKeys |-> <<>>] EXCEPT ![HistoryKey(<<SYMBOL, TF_ENTRY>>)] = h] :
                    h \in MonitoredHistories}
    /\ candle_updates = <<SubscribeAck>>
    /\ stream_pc = "recv"
    /\ stream_cur = [tf |-> "", candle |-> NoLiveCandle]
    /\ stream_msg = NoWsMessage
    /\ ws_received = 0
    /\ loop_pc = "listen" /\ loop_note = NoNote /\ loop_read = NoRead
    /\ notes_received = 0 /\ live_saves = <<>>
    /\ trade_stats = [wins |-> 0, losses |-> 0]
    /\ trade_pc = "read"
    /\ trade_history = <<>>

\* monitor_market: history = await self.db.get_history(f"{config.SYMBOL}:{config.TF_ENTRY}")
MonitorRead ==
    /\ trade_pc = "read"
    /\ trade_history' = get_history(store, <<SYMBOL, TF_ENTRY>>)
    /\ trade_pc' = "check"
    /\ UNCHANGED <<store, candle_updates, stream_pc, stream_cur, stream_msg, ws_received,
                   loop_pc, loop_note, loop_read, notes_received, live_saves, trade_stats>>
    /\ UNCHANGED sigVars
    /\ LiveRest

\* monitor_market: the rest of the iteration, up to the sleep
MonitorCheck ==
    /\ trade_pc = "check"
    /\ IF trade_history = <<>> \/ active_trades = <<>>
       THEN UNCHANGED <<active_trades, trade_stats>>
       ELSE LET r == MonitorPass(active_trades, active_trades, trade_stats,
                                 trade_history[Len(trade_history)].c)
            IN  /\ active_trades' = r.trades
                /\ trade_stats' = r.stats
    /\ trade_pc' = "read"
    /\ UNCHANGED <<store, candle_updates, stream_pc, stream_cur, stream_msg, ws_received,
                   loop_pc, loop_note, loop_read, notes_received, live_saves, trade_history>>
    /\ UNCHANGED <<trading_signals, emitted, saved, popped, pop_result, total_signals>>
    /\ LiveRest

NextTrades ==
    \/ ListenSignals
    \/ MonitorRead
    \/ MonitorCheck
    \/ \E msg \in TradeFeed(ws_received + 1) : StreamRecv(msg)
    \/ PushLpush
    \/ PushLtrim
    \/ PushPublish

SpecTrades == InitTrades /\ [][NextTrades]_vars

\* the tasks of both processes are scheduled again and again
SpecTradesFair ==
    /\ SpecTrades
    /\ WF_vars(ListenSignals)
    /\ WF_vars(MonitorRead)
    /\ WF_vars(MonitorCheck)
    /\ WF_vars(PushLpush)
    /\ WF_vars(PushLtrim)
    /\ WF_vars(PushPublish)

Closed == trade_stats.wins + trade_stats.losses

\* the feed has stored an entry-timeframe candle whose close reaches the
\* take-profit or the stop-loss of an open trade
FeedReachedLevel ==
    LET h == get_history(store, <<TF_ENTRY>>)
    IN  /\ h # <<>>
        /\ \E i \in 1..Len(active_trades) :
              Outcome(active_trades[i], h[Len(h)].c) # "open"

\* C32: once the feed has stored an entry-timeframe candle whose close
\* reaches the take-profit or stop-loss of an open trade, a trade is
\* eventually closed and counted.
C32_ReachedTradeCloses ==
    \A n \in 0..MaxQueued : (FeedReachedLevel /\ Closed = n) ~> (Closed > n)

\* the trades of the list that current_price leaves open
StayOpen(trades, current_price) ==
    SelectSeq(trades, LAMBDA t : Outcome(t, current_price) = "open")

IterationEnds == trade_pc = "check" /\ trade_pc' = "read"

\* C38: the positions opened are the active trades plus the wins plus the
\* losses; an iteration of the monitor removes exactly the trades it counts,
\* each as a win or as a loss and not as both, and leaves the others; no
\* other step changes the counters, and the counters never fall.
C38_TradesConserved ==
    /\ [](Len(popped) = Len(active_trades) + trade_stats.wins + trade_stats.losses)
    /\ [][/\ trade_stats'.wins >= trade_stats.wins
          /\ trade_stats'.losses >= trade_stats.losses
          /\ trade_stats' # trade_stats => IterationEnds
          /\ (IterationEnds /\ trade_history # <<>>) =>
                LET price == trade_history[Len(trade_history)].c
                IN  /\ active_trades' = StayOpen(active_trades, price)
                    /\ Closed' - Closed = Len(active_trades) - Len(active_trades')
                    /\ trade_stats'.wins - trade_stats.wins =
                          Cardinality({i \in 1..Len(active_trades) :
                                          Outcome(active_trades[i], price) = "win"})]_vars

\* two equal BUY trades were closed as wins in one iteration while a SELL
\* trade opened between them stayed open
C38_Witness ==
    /\ Len(popped) = 3
    /\ trade_stats.wins = 2
    /\ Len(active_trades) = 1
    /\ active_trades[1].side = "SELL"

============================================================================
